---- MODULE Spec2Model ----
(***************************************************************************)
(* Cluster model of Mastermind: Backend, FS, Group and Couple as state     *)
(* machines, translated from src/src/collector/Backend.cpp,                *)
(* src/src/cpp-worker/FS.cpp, src/src/cpp-worker/Group.cpp and the Couple  *)
(* implementation (src/unnamed/part_002).                                  *)
(*                                                                         *)
(* Abstractions: 64-bit counters are unbounded integers kept small by the  *)
(* input sets; a double is an exact rational; a string is a TLA+ string.   *)
(***************************************************************************)
EXTENDS Integers, Sequences, FiniteSets, TLC

VARIABLES backends, fs, node, groups, couples, config, last,
          threads, locks, inventory, parser

vars == <<backends, fs, node, groups, couples, config, last,
          threads, locks, inventory, parser>>

\* No thread is inside a call, no lock is held and there is neither an
\* inventory nor a parser.
NoConcurrency == threads = <<>> /\ locks = <<>> /\ inventory = <<>> /\ parser = <<>>

---------------------------------------------------------------------------
(* Bounds of the model                                                     *)

NumBackends == 2
MaxSpace == 2
MaxRofs == 2
MaxSec == 3

BackendIds == 1..NumBackends

---------------------------------------------------------------------------
(* Backend: raw snapshot and derived block                                 *)

DNET_BACKEND_ENABLED == 1

FSStatuses == {"OK", "BROKEN"}

\* BackendStat::BackendStat(): every counter starts at zero.
BackendStat ==
    [ backend_id |-> 0, ts_sec |-> 0, ts_usec |-> 0,
      read_ios |-> 0, write_ios |-> 0, dstat_error |-> 0,
      vfs_blocks |-> 0, vfs_bavail |-> 0, vfs_bsize |-> 0,
      base_size |-> 0, records_total |-> 0, records_removed |-> 0,
      blob_size_limit |-> 0, group |-> 0,
      state |-> 0, read_only |-> FALSE,
      last_start_ts_sec |-> 0, last_start_ts_usec |-> 0,
      ell_cache_write_size |-> 0, ell_disk_write_size |-> 0,
      ell_cache_read_size |-> 0, ell_disk_read_size |-> 0,
      stat_commit_rofs_errors |-> 0,
      data_path |-> "", file_path |-> "" ]

\* A rate is a double: kept as an exact fraction in lowest terms.
RECURSIVE GCD(_, _)
GCD(a, b) == IF b = 0 THEN a ELSE GCD(b, a % b)

Rate(n, d) == LET g == GCD(n, d) IN [num |-> n \div g, den |-> d \div g]

ZeroRate == [num |-> 0, den |-> 1]

\* CommandStat::clear()
CommandStatClear ==
    [ ell_disk_read_rate |-> ZeroRate, ell_disk_write_rate |-> ZeroRate,
      ell_net_read_rate |-> ZeroRate, ell_net_write_rate |-> ZeroRate ]

\* The derived block of a freshly constructed Backend (m_calculated()).
CalculatedBackend ==
    [ read_rps |-> 0, write_rps |-> 0, max_read_rps |-> 0, max_write_rps |-> 0,
      command_stat |-> CommandStatClear,
      stat_commit_rofs_errors_diff |-> 0,
      vfs_total_space |-> 0, vfs_free_space |-> 0, vfs_used_space |-> 0,
      records |-> 0, fragmentation |-> ZeroRate,
      total_space |-> 0, used_space |-> 0, free_space |-> 0,
      effective_space |-> 0, effective_free_space |-> 0,
      stalled |-> FALSE, status |-> "INIT", status_detail |-> "Init",
      base_path |-> "" ]

\* BackendStat::get_timestamp(): microseconds since the epoch.
get_timestamp(stat) == stat.ts_sec * 1000000 + stat.ts_usec

\* The call made last: the operation, the entity it ran on, an argument it
\* was given (FALSE when it is not recorded) and a boolean it handed back.
NoOp == [op |-> "none", id |-> 0, arg |-> FALSE, ret |-> FALSE]

Did(op, id) == [op |-> op, id |-> id, arg |-> FALSE, ret |-> FALSE]

---------------------------------------------------------------------------
(* Backend::update_status                                                  *)

\* The status update with the read-only test ahead of the filesystem test.
update_status_ro_first(b, fs_status) ==
    IF b.calc.stalled \/ b.stat.state # DNET_BACKEND_ENABLED
    THEN [b EXCEPT !.calc.status = "STALLED",
                   !.calc.status_detail =
                       IF b.calc.stalled THEN "Stalled" ELSE "NotEnabled"]
    ELSE IF b.stat.read_only \/ b.calc.stat_commit_rofs_errors_diff # 0
    THEN [b EXCEPT !.calc.status = "RO",
                   !.calc.status_detail =
                       IF b.stat.read_only THEN "ReadOnly" ELSE "HasCommitErrors"]
    ELSE IF fs_status = "BROKEN"
    THEN [b EXCEPT !.calc.status = "BROKEN", !.calc.status_detail = "FSBroken"]
    ELSE [b EXCEPT !.calc.status = "OK", !.calc.status_detail = "OK"]

\* The status update that clears the read-only-error drift once it has
\* reported it.
update_status_clearing_diff(b, fs_status) ==
    IF b.calc.stalled \/ b.stat.state # DNET_BACKEND_ENABLED
    THEN [b EXCEPT !.calc.status = "STALLED",
                   !.calc.status_detail =
                       IF b.calc.stalled THEN "Stalled" ELSE "NotEnabled"]
    ELSE IF fs_status = "BROKEN"
    THEN [b EXCEPT !.calc.status = "BROKEN", !.calc.status_detail = "FSBroken"]
    ELSE IF b.stat.read_only \/ b.calc.stat_commit_rofs_errors_diff # 0
    THEN [b EXCEPT !.calc.status = "RO",
                   !.calc.status_detail =
                       IF b.stat.read_only THEN "ReadOnly" ELSE "HasCommitErrors",
                   !.calc.stat_commit_rofs_errors_diff = 0]
    ELSE [b EXCEPT !.calc.status = "OK", !.calc.status_detail = "OK"]

\* The backend after Backend::update_status(), given its FS's status.
update_status(b, fs_status) ==
    IF b.calc.stalled \/ b.stat.state # DNET_BACKEND_ENABLED
    THEN [b EXCEPT !.calc.status = "STALLED",
                   !.calc.status_detail =
                       IF b.calc.stalled THEN "Stalled" ELSE "NotEnabled"]
    ELSE IF fs_status = "BROKEN"
    THEN [b EXCEPT !.calc.status = "BROKEN", !.calc.status_detail = "FSBroken"]
    ELSE IF b.stat.read_only \/ b.calc.stat_commit_rofs_errors_diff # 0
    THEN [b EXCEPT !.calc.status = "RO",
                   !.calc.status_detail =
                       IF b.stat.read_only THEN "ReadOnly" ELSE "HasCommitErrors"]
    ELSE [b EXCEPT !.calc.status = "OK", !.calc.status_detail = "OK"]

BackendUpdateStatus(id) ==
    /\ backends' = [backends EXCEPT ![id] = update_status(backends[id], fs.status)]
    /\ last' = Did("Backend::update_status", id)
    /\ UNCHANGED <<fs, node, groups, couples, config,
                 threads, locks, inventory, parser>>

---------------------------------------------------------------------------
(* Backend::update, CommandStat::calculate, Backend::merge                 *)

INT_MAX == 2147483647
INT_MIN == -INT_MAX - 1

Max(a, b) == IF a >= b THEN a ELSE b

\* A double outside the range of int converted to int: undefined behaviour;
\* the build yields the "indefinite" INT_MIN or saturates.
IntOverflow == {INT_MIN, INT_MAX}

\* Pairs of timestamps (microseconds) exactly one second apart whose
\* quotients by 1000000.0 are doubles more than 1.0 apart. With IEEE-754
\* binary64, 1000001 / 1e6 rounds down to 1.000000999999999917733362 and
\* 2000001 / 1e6 rounds up to 2.000001000000000139777966, so that their
\* difference is 1.0000000000000002. It is the one such pair among the
\* timestamps of up to 5 seconds with 0 or 1 microseconds.
RoundsAboveOne == {<<1000001, 2000001>>}

\* d_ts > 1.0 in Backend::update and its negation dt <= 1.0 in
\* CommandStat::calculate, where d_ts = double(ts2) / 1000000.0 -
\* double(ts1) / 1000000.0 is computed in doubles.
d_ts_above_one(ts1, ts2) ==
    \/ ts2 - ts1 > 1000000
    \/ <<ts1, ts2>> \in RoundsAboveOne

\* int(double(new_ios - old_ios) / d_ts): the subtraction is unsigned, so a
\* counter that went back wraps to about 2^64 and the quotient leaves int.
rps(new_ios, old_ios, d_us) ==
    IF new_ios >= old_ios
    THEN {((new_ios - old_ios) * 1000000) \div d_us}
    ELSE IntOverflow

\* int(std::max(double(rps) / std::max(load_average, 0.01), 100.0)), with
\* load_average kept in hundredths.
max_rps(r, load_average) ==
    LET l == Max(load_average, 1)
    IN IF r <= 0 THEN {100}
       ELSE IF r \div l >= INT_MAX \div 100 THEN IntOverflow
       ELSE {Max((r \div l) * 100 + ((r % l) * 100) \div l, 100)}

\* CommandStat::calculate(old_stat, new_stat)
calculate(cs, old_stat, new_stat) ==
    LET d_us == get_timestamp(new_stat) - get_timestamp(old_stat)
        disk_read == new_stat.ell_disk_read_size - old_stat.ell_disk_read_size
        disk_written == new_stat.ell_disk_write_size - old_stat.ell_disk_write_size
        cache_read == new_stat.ell_cache_read_size - old_stat.ell_cache_read_size
        cache_written == new_stat.ell_cache_write_size - old_stat.ell_cache_write_size
        rate(delta) == Rate(delta * 1000000, d_us)
    IN IF ~d_ts_above_one(get_timestamp(old_stat), get_timestamp(new_stat)) THEN cs
       ELSE [ ell_disk_read_rate |->
                  IF disk_read >= 0 THEN rate(disk_read) ELSE cs.ell_disk_read_rate,
              ell_net_read_rate |->
                  IF disk_read >= 0 /\ cache_read >= 0
                  THEN rate(disk_read + cache_read) ELSE cs.ell_net_read_rate,
              ell_disk_write_rate |->
                  IF disk_written >= 0 THEN rate(disk_written)
                  ELSE cs.ell_disk_write_rate,
              ell_net_write_rate |->
                  IF disk_written >= 0 /\ cache_written >= 0
                  THEN rate(disk_written + cache_written) ELSE cs.ell_net_write_rate ]

\* Backend::calculate_base_path(stat)
calculate_base_path(base_path, stat) ==
    IF stat.data_path # "" THEN stat.data_path
    ELSE IF stat.file_path # "" THEN stat.file_path
    ELSE base_path

\* The drift taken as the last difference alone, with no accumulation.
rofs_errors_diff_last(diff, old_stat, stat) ==
    IF old_stat.last_start_ts_sec < stat.last_start_ts_sec
       \/ old_stat.stat_commit_rofs_errors > stat.stat_commit_rofs_errors
    THEN 0
    ELSE stat.stat_commit_rofs_errors - old_stat.stat_commit_rofs_errors

\* The read-only-error drift of Backend::update: the old start time takes its
\* seconds from the stored snapshot and its microseconds from the new one.
rofs_errors_diff(diff, old_stat, stat) ==
    LET last_start_old == old_stat.last_start_ts_sec * 1000000 + stat.last_start_ts_usec
        last_start_new == stat.last_start_ts_sec * 1000000 + stat.last_start_ts_usec
    IN IF last_start_old < last_start_new
          \/ old_stat.stat_commit_rofs_errors > stat.stat_commit_rofs_errors
       THEN 0
       ELSE diff + (stat.stat_commit_rofs_errors - old_stat.stat_commit_rofs_errors)

\* Backend::init(stat)
init(stat) ==
    [ stat |-> stat,
      calc |-> [CalculatedBackend EXCEPT !.base_path = calculate_base_path("", stat)] ]

\* Backend::update(stat)
BackendUpdate(id, stat) ==
    LET b == backends[id]
        d_us == get_timestamp(stat) - get_timestamp(b.stat)
        rates == /\ d_ts_above_one(get_timestamp(b.stat), get_timestamp(stat))
                 /\ stat.dstat_error = 0
    IN
    /\ \E read_rps \in IF rates THEN rps(stat.read_ios, b.stat.read_ios, d_us)
                       ELSE {b.calc.read_rps} :
       \E write_rps \in IF rates THEN rps(stat.write_ios, b.stat.write_ios, d_us)
                        ELSE {b.calc.write_rps} :
       \E max_read_rps \in IF rates THEN max_rps(read_rps, node.load_average)
                           ELSE {b.calc.max_read_rps} :
       \E max_write_rps \in IF rates THEN max_rps(write_rps, node.load_average)
                            ELSE {b.calc.max_write_rps} :
          backends' = [backends EXCEPT ![id] =
              [ stat |-> stat,
                calc |-> [b.calc EXCEPT
                    !.read_rps = read_rps,
                    !.write_rps = write_rps,
                    !.max_read_rps = max_read_rps,
                    !.max_write_rps = max_write_rps,
                    !.command_stat = calculate(@, b.stat, stat),
                    !.stat_commit_rofs_errors_diff = rofs_errors_diff(@, b.stat, stat),
                    !.base_path = calculate_base_path(@, stat)] ]]
    /\ last' = Did("Backend::update", id)
    /\ UNCHANGED <<fs, node, groups, couples, config,
                 threads, locks, inventory, parser>>

\* The backend after Backend::merge(other, have_newer).
merge(b, other) ==
    IF get_timestamp(b.stat) < get_timestamp(other.stat) THEN other ELSE b

\* have_newer after Backend::merge(other, have_newer).
merge_have_newer(b, other, have_newer) ==
    IF get_timestamp(b.stat) < get_timestamp(other.stat) THEN have_newer
    ELSE IF get_timestamp(b.stat) > get_timestamp(other.stat) THEN TRUE
    ELSE have_newer

BackendMerge(id, other, have_newer) ==
    /\ backends' = [backends EXCEPT ![id] = merge(backends[id], other)]
    /\ last' = [op |-> "Backend::merge", id |-> id, arg |-> have_newer,
                ret |-> merge_have_newer(backends[id], other, have_newer)]
    /\ UNCHANGED <<fs, node, groups, couples, config,
                 threads, locks, inventory, parser>>

---------------------------------------------------------------------------
(* Backend::recalculate                                                    *)

Min(a, b) == IF a <= b THEN a ELSE b

\* The least int64_t, scaled to the width of the model's integers.
LONG_MIN == INT_MIN

\* int64_t(NaN): undefined behaviour; the build yields the "indefinite"
\* least value or zero.
NaNToLong == {0, LONG_MIN}

\* a - b in int64_t for a >= 0, wrapping round when b is the least value.
wrapping_sub(a, b) == IF b = LONG_MIN THEN LONG_MIN + a ELSE a - b

\* std::ceil(double(reserved_space) * share), share being
\* double(total_space) / double(vfs_total_space): the ceiling is taken of the
\* exact product, and 0.0 / 0.0 is a NaN.
free_space_req_share(reserved_space, total_space, vfs_total_space) ==
    IF vfs_total_space = 0 THEN NaNToLong
    ELSE {(reserved_space * total_space + vfs_total_space - 1) \div vfs_total_space}

\* total_space - free_space_req_share with no std::max(0L, ...) around a
\* difference that did not wrap.
effective_space_unsaturated(total_space, req_share) ==
    IF req_share = LONG_MIN THEN 0 ELSE total_space - req_share

\* std::max(0L, total_space - free_space_req_share)
effective_space(total_space, req_share) ==
    Max(0, wrapping_sub(total_space, req_share))

\* The live records added to those counted by the call before.
records_accumulating(b) ==
    b.calc.records + (b.stat.records_total - b.stat.records_removed)

\* m_stat.records_total - m_stat.records_removed
records(b) == b.stat.records_total - b.stat.records_removed

\* The free space under a blob size limit with no std::max(0L, ...) around
\* total_space - used_space.
limited_free_space_unclamped(vfs_free_space, total_space, used_space) ==
    Min(vfs_free_space, total_space - used_space)

\* std::min(int64_t(vfs_free_space), std::max(0L, total_space - used_space))
limited_free_space(vfs_free_space, total_space, used_space) ==
    Min(vfs_free_space, Max(0, total_space - used_space))

\* The backends that Backend::recalculate() can leave, given the
\* configuration.
recalculate(b, cfg) ==
    LET stat == b.stat
        vfs_total_space == stat.vfs_blocks * stat.vfs_bsize
        vfs_free_space == stat.vfs_bavail * stat.vfs_bsize
        vfs_used_space == vfs_total_space - vfs_free_space
        limited == stat.blob_size_limit # 0
        total_space == IF limited THEN Min(stat.blob_size_limit, vfs_total_space)
                       ELSE vfs_total_space
        used_space == IF limited THEN stat.base_size ELSE vfs_used_space
        free_space == IF limited
                      THEN limited_free_space(vfs_free_space, total_space, used_space)
                      ELSE vfs_free_space
    IN { [b EXCEPT
            !.calc.vfs_total_space = vfs_total_space,
            !.calc.vfs_free_space = vfs_free_space,
            !.calc.vfs_used_space = vfs_used_space,
            !.calc.records = records(b),
            !.calc.fragmentation =
                Rate(stat.records_removed, Max(stat.records_total, 1)),
            !.calc.total_space = total_space,
            !.calc.used_space = used_space,
            !.calc.free_space = free_space,
            !.calc.effective_space = effective_space(total_space, req),
            !.calc.effective_free_space =
                Max(free_space
                    - (total_space - effective_space(total_space, req)), 0)] :
         req \in free_space_req_share(cfg.reserved_space, total_space,
                                      vfs_total_space) }

\* The divisor of share, double(vfs_total_space), is 0.0.
divides_by_zero(stat) == stat.vfs_blocks * stat.vfs_bsize = 0

\* Backend::recalculate(); the record of the call says whether it divided
\* by zero.
BackendRecalculate(id) ==
    /\ \E b \in recalculate(backends[id], config) :
          backends' = [backends EXCEPT ![id] = b]
    /\ last' = [Did("Backend::recalculate", id) EXCEPT
                  !.arg = divides_by_zero(backends[id].stat)]
    /\ UNCHANGED <<fs, node, groups, couples, config,
                 threads, locks, inventory, parser>>

---------------------------------------------------------------------------
(* FS                                                                      *)

\* FS::FS(): status OK, stat zeroed, no backends.
NewFS == [ts_sec |-> 0, ts_usec |-> 0, total_space |-> 0,
          status |-> "OK", backends |-> {}]

FSAddBackend(id) ==
    /\ id \notin fs.backends
    /\ fs' = [fs EXCEPT !.backends = @ \cup {id}]
    /\ last' = Did("FS::add_backend", 0)
    /\ UNCHANGED <<backends, node, groups, couples, config,
                 threads, locks, inventory, parser>>

FSRemoveBackend(id) ==
    /\ id \in fs.backends
    /\ fs' = [fs EXCEPT !.backends = @ \ {id}]
    /\ last' = Did("FS::remove_backend", 0)
    /\ UNCHANGED <<backends, node, groups, couples, config,
                 threads, locks, inventory, parser>>

\* FS::update(backend): the timestamp and the size of the filesystem as the
\* backend reports them.
FSUpdate(id) ==
    /\ fs' = [fs EXCEPT !.ts_sec = backends[id].stat.ts_sec,
                        !.ts_usec = backends[id].stat.ts_usec,
                        !.total_space = backends[id].calc.vfs_total_space]
    /\ last' = Did("FS::update", id)
    /\ UNCHANGED <<backends, node, groups, couples, config,
                 threads, locks, inventory, parser>>

\* The loop of FS::update_status over m_backends, as a fold over the set.
RECURSIVE SumCounted(_, _)
SumCounted(members, bs) ==
    IF members = {} THEN 0
    ELSE LET id == CHOOSE x \in members : TRUE
             status == bs[id].calc.status
         IN (IF status # "OK" /\ status # "BROKEN"
             THEN 0 ELSE bs[id].calc.total_space)
            + SumCounted(members \ {id}, bs)

\* The sum taken over every member, whatever its status.
RECURSIVE SumAll(_, _)
SumAll(members, bs) ==
    IF members = {} THEN 0
    ELSE LET id == CHOOSE x \in members : TRUE
         IN bs[id].calc.total_space + SumAll(members \ {id}, bs)

fs_update_status_all(f, bs) ==
    [f EXCEPT !.status =
        IF SumAll(f.backends, bs) <= f.total_space THEN "OK" ELSE "BROKEN"]

\* The FS after FS::update_status().
fs_update_status(f, bs) ==
    [f EXCEPT !.status =
        IF SumCounted(f.backends, bs) <= f.total_space THEN "OK" ELSE "BROKEN"]

FSUpdateStatus ==
    /\ fs' = fs_update_status(fs, backends)
    /\ last' = Did("FS::update_status", 0)
    /\ UNCHANGED <<backends, node, groups, couples, config,
                 threads, locks, inventory, parser>>

---------------------------------------------------------------------------
(* Group metadata: the packed value and its decoding                       *)

\* A msgpack::object: its type tag and the member of the union that the tag
\* selects (n: integer, b: boolean, s: raw bytes, a: array, m: map entries).
\* A metadata blob is the object its bytes unpack to; two blobs have equal
\* bytes iff they are equal objects.  EMPTY is the blob of no bytes and
\* INVALID a blob msgpack::unpack throws on.
Obj(t) == [t |-> t, n |-> 0, b |-> FALSE, s |-> "", a |-> <<>>, m |-> <<>>]

Nil == Obj("NIL")
Bool(b) == [Obj("BOOLEAN") EXCEPT !.b = b]
Num(n) == [Obj(IF n >= 0 THEN "POSITIVE_INTEGER" ELSE "NEGATIVE_INTEGER") EXCEPT !.n = n]
Raw(s) == [Obj("RAW") EXCEPT !.s = s]
Array(a) == [Obj("ARRAY") EXCEPT !.a = a]
Map(m) == [Obj("MAP") EXCEPT !.m = m]
KV(k, v) == [key |-> Raw(k), val |-> v]

EmptyBlob == Obj("EMPTY")
InvalidBlob == Obj("INVALID")

\* std::sort of a vector<int>
RECURSIVE Insert(_, _)
Insert(x, sorted) ==
    IF sorted = <<>> THEN <<x>>
    ELSE IF x <= Head(sorted) THEN <<x>> \o sorted
    ELSE <<Head(sorted)>> \o Insert(x, Tail(sorted))

RECURSIVE Sort(_)
Sort(seq) == IF seq = <<>> THEN <<>> ELSE Insert(Head(seq), Sort(Tail(seq)))

\* The element loop of parse_couple: stops at the first element that is not
\* a POSITIVE_INTEGER, with the ids seen so far already pushed.
RECURSIVE push_groups(_, _)
push_groups(a, couple) ==
    IF a = <<>> THEN [ok |-> TRUE, couple |-> couple]
    ELSE IF Head(a).t # "POSITIVE_INTEGER" THEN [ok |-> FALSE, couple |-> couple]
    ELSE push_groups(Tail(a), Append(couple, Head(a).n))

\* parse_couple(obj, couple): the ids are appended to couple, which is then
\* sorted as a whole.
parse_couple(obj, couple) ==
    IF obj.t # "ARRAY" THEN [ok |-> FALSE, couple |-> couple]
    ELSE LET r == push_groups(obj.a, couple)
         IN IF r.ok THEN [ok |-> TRUE, couple |-> Sort(r.couple)] ELSE r

\* The locals of Group::process_metadata before decoding; err is the text
\* collected in ostr.
Decoded ==
    [ version |-> 0, couple |-> <<>>, ns |-> "", frozen |-> FALSE,
      service_migrating |-> FALSE, service_job_id |-> "", err |-> <<>> ]

\* The loop over the entries of the 'service' map.
RECURSIVE decode_service(_, _)
decode_service(m, d) ==
    IF m = <<>> THEN d
    ELSE LET kv == Head(m) IN
         IF kv.key.t # "RAW" THEN decode_service(Tail(m), d)
         ELSE IF kv.key.s = "status"
         THEN decode_service(Tail(m),
                  IF kv.val.t = "RAW" /\ kv.val.s = "MIGRATING"
                  THEN [d EXCEPT !.service_migrating = TRUE] ELSE d)
         ELSE IF kv.key.s = "job_id"
         THEN IF kv.val.t = "RAW"
              THEN decode_service(Tail(m), [d EXCEPT !.service_job_id = kv.val.s])
              ELSE [d EXCEPT !.err = <<"invalid 'job_id' value type", kv.val.t>>]
         ELSE decode_service(Tail(m), d)

\* The loop over the entries of the top-level map; it ends at the first
\* value of a wrong type.
RECURSIVE decode_map(_, _)
decode_map(m, d) ==
    IF m = <<>> THEN d
    ELSE LET kv == Head(m) IN
         IF kv.key.t # "RAW" THEN decode_map(Tail(m), d)
         ELSE IF kv.key.s = "version"
         THEN IF kv.val.t = "POSITIVE_INTEGER"
              THEN decode_map(Tail(m), [d EXCEPT !.version = kv.val.n])
              ELSE [d EXCEPT !.err = <<"invalid 'version' value type", kv.val.t>>]
         ELSE IF kv.key.s = "couple"
         THEN LET r == parse_couple(kv.val, d.couple) IN
              IF r.ok
              THEN decode_map(Tail(m), [d EXCEPT !.couple = r.couple])
              ELSE [d EXCEPT !.couple = r.couple, !.err = <<"couldn't parse 'couple'">>]
         ELSE IF kv.key.s = "namespace"
         THEN IF kv.val.t = "RAW"
              THEN decode_map(Tail(m), [d EXCEPT !.ns = kv.val.s])
              ELSE [d EXCEPT !.err = <<"invalid 'namespace' value type", kv.val.t>>]
         ELSE IF kv.key.s = "frozen"
         THEN IF kv.val.t = "BOOLEAN"
              THEN decode_map(Tail(m), [d EXCEPT !.frozen = kv.val.b])
              ELSE [d EXCEPT !.err = <<"invalid 'frozen' value type", kv.val.t>>]
         ELSE IF kv.key.s = "service"
         THEN IF kv.val.t = "MAP"
              THEN LET r == decode_service(kv.val.m, d) IN
                   IF r.err = <<>> THEN decode_map(Tail(m), r) ELSE r
              ELSE [d EXCEPT !.err = <<"invalid 'service' value type", kv.val.t>>]
         ELSE decode_map(Tail(m), d)

\* The decoding of an unpacked object (Group.cpp lines 142-234): a map, a
\* bare array (version 1), or anything else, which leaves the defaults.
decode(obj) ==
    IF obj.t = "MAP" THEN decode_map(obj.m, Decoded)
    ELSE IF obj.t = "ARRAY"
    THEN LET r == parse_couple(obj, <<>>)
             d == [Decoded EXCEPT !.version = 1, !.ns = "default", !.couple = r.couple]
         IN IF r.ok THEN d
            ELSE [d EXCEPT !.err = <<"couldn't parse couple (format of version 1)">>]
    ELSE Decoded

\* msgpack::unpack: throws on no bytes and on bytes that are no object.
unpack(blob) ==
    IF blob.t = "EMPTY" \/ blob.t = "INVALID"
    THEN [ok |-> FALSE, what |-> <<"msgpack could not parse group metadata">>]
    ELSE [ok |-> TRUE, what |-> <<>>]

---------------------------------------------------------------------------
(* Group and Couple                                                        *)

GroupStatuses == {"INIT", "COUPLED", "BAD", "BROKEN", "RO", "MIGRATING"}

\* The statuses a member backend of a group can show.
MemberStatuses == {"INIT", "OK", "RO", "BAD", "STALLED", "BROKEN"}

\* Group::Group(id, storage).  couple is <<>> for NULL and <<key>> for a
\* couple of the storage; backends holds the status of each member backend;
\* total_space and full are what get_total_space() and full() answer; addr
\* is the address of the object.
Group(id) ==
    [ id |-> id, couple |-> <<>>, clean |-> TRUE, status |-> "INIT",
      status_text |-> <<>>, frozen |-> FALSE, version |-> 0, namespace |-> "",
      service |-> [migrating |-> FALSE, job_id |-> ""],
      metadata |-> EmptyBlob, backends |-> <<>>,
      total_space |-> 0, full |-> FALSE, addr |-> id ]

\* Couple::Couple(storage, groups)
Couple(ids) == [groups |-> ids, key |-> "", status |-> "INIT", status_text |-> ""]

\* Group::save_metadata(metadata, size)
save_metadata(g, blob) ==
    IF g.metadata # EmptyBlob /\ g.metadata = blob
    THEN [g EXCEPT !.clean = TRUE]
    ELSE [g EXCEPT !.metadata = blob, !.clean = FALSE]

GroupSaveMetadata(id, blob) ==
    /\ groups' = [groups EXCEPT ![id] = save_metadata(@, blob)]
    /\ last' = [op |-> "Group::save_metadata", id |-> id, arg |-> blob,
                ret |-> FALSE]
    /\ UNCHANGED <<backends, fs, node, couples, config,
                 threads, locks, inventory, parser>>

\* Couple::check(groups)
check(c, ids) ==
    /\ Len(c.groups) = Len(ids)
    /\ \A i \in 1..Len(c.groups) : c.groups[i] = ids[i]

\* std::to_string of a group id
RECURSIVE to_string(_)
to_string(n) ==
    IF n >= 10 THEN to_string(n \div 10) \o to_string(n % 10)
    ELSE <<"0", "1", "2", "3", "4", "5", "6", "7", "8", "9">>[n + 1]

\* The key with a ':' after every id, the last one included.
RECURSIVE join_key_trailing(_, _)
join_key_trailing(ids, i) ==
    IF i > Len(ids) THEN ""
    ELSE to_string(ids[i]) \o ":" \o join_key_trailing(ids, i + 1)

\* The key built by Couple::bind_groups: the ids joined by ':'.
RECURSIVE join_key(_, _)
join_key(ids, i) ==
    IF i > Len(ids) THEN ""
    ELSE to_string(ids[i]) \o (IF i # Len(ids) THEN ":" ELSE "") \o join_key(ids, i + 1)

\* Couple::bind_groups(): every listed group is pointed at this couple.
bind_groups(gs, key, c) ==
    [ groups |-> [id \in DOMAIN gs |->
                    IF \E i \in 1..Len(c.groups) : c.groups[i] = id
                    THEN [gs[id] EXCEPT !.couple = <<key>>] ELSE gs[id]],
      couple |-> [c EXCEPT !.key = join_key(c.groups, 1)] ]

\* Storage::create_couple(group_ids, group): nothing when a couple with
\* these ids exists; otherwise the groups named that do not exist yet are
\* created, the couple is created over them and bound.
create_couple(gs, cs, ids) ==
    IF ids \in DOMAIN cs THEN [groups |-> gs, couples |-> cs]
    ELSE LET named == {ids[i] : i \in 1..Len(ids)}
             all == [id \in DOMAIN gs \cup named |->
                        IF id \in DOMAIN gs THEN gs[id] ELSE Group(id)]
             bound == bind_groups(all, ids, Couple(ids))
         IN [groups |-> bound.groups, couples |-> (ids :> bound.couple) @@ cs]

\* The status derivation with the read-only test ahead of the test for a
\* BAD backend.
group_status_ro_first(member, forbidden_dht_groups, service) ==
    LET have(S) == \E i \in 1..Len(member) : member[i] \in S IN
    IF member = <<>>
    THEN [status |-> "INIT", status_text |-> <<"no node backends">>]
    ELSE IF Len(member) > 1 /\ forbidden_dht_groups
    THEN [status |-> "BROKEN",
          status_text |-> <<"DHT groups are forbidden but the group has",
                            Len(member), "backends">>]
    ELSE IF have({"RO"})
    THEN IF service.migrating
         THEN [status |-> "MIGRATING",
               status_text |-> <<"group is migrating, job id is", service.job_id>>]
         ELSE [status |-> "RO",
               status_text |-> <<"group is read-only because it has read-only backends">>]
    ELSE IF have({"BAD"})
    THEN [status |-> "BROKEN",
          status_text |-> <<"some of backends are in state BROKEN">>]
    ELSE IF have(MemberStatuses \ {"OK", "RO", "BAD"})
    THEN [status |-> "BAD",
          status_text |-> <<"group is in state BAD because some of backends are not in state OK">>]
    ELSE [status |-> "COUPLED", status_text |-> <<"group is OK">>]

\* The flags of the loop over the backends (Group.cpp lines 279-293): the
\* loop ends at the first BAD backend.
RECURSIVE scan_backends(_, _)
scan_backends(member, flags) ==
    IF member = <<>> THEN flags
    ELSE IF Head(member) = "BAD" THEN [flags EXCEPT !.have_bad = TRUE]
    ELSE IF Head(member) = "RO"
    THEN scan_backends(Tail(member), [flags EXCEPT !.have_ro = TRUE])
    ELSE IF Head(member) # "OK"
    THEN scan_backends(Tail(member), [flags EXCEPT !.have_other = TRUE])
    ELSE scan_backends(Tail(member), flags)

\* The status derivation at the end of Group::process_metadata
\* (Group.cpp lines 270-316).
group_status(member, forbidden_dht_groups, service) ==
    IF member = <<>>
    THEN [status |-> "INIT", status_text |-> <<"no node backends">>]
    ELSE IF Len(member) > 1 /\ forbidden_dht_groups
    THEN [status |-> "BROKEN",
          status_text |-> <<"DHT groups are forbidden but the group has",
                            Len(member), "backends">>]
    ELSE LET flags == scan_backends(member,
                 [have_bad |-> FALSE, have_ro |-> FALSE, have_other |-> FALSE])
         IN IF flags.have_bad
            THEN [status |-> "BROKEN",
                  status_text |-> <<"some of backends are in state BROKEN">>]
            ELSE IF flags.have_ro
            THEN IF service.migrating
                 THEN [status |-> "MIGRATING",
                       status_text |-> <<"group is migrating, job id is", service.job_id>>]
                 ELSE [status |-> "RO",
                       status_text |->
                           <<"group is read-only because it has read-only backends">>]
            ELSE IF flags.have_other
            THEN [status |-> "BAD",
                  status_text |->
                      <<"group is in state BAD because some of backends are not in state OK">>]
            ELSE [status |-> "COUPLED", status_text |-> <<"group is OK">>]

\* Group::process_metadata() past its test of m_clean, on group id: the
\* groups and couples after it.
process_dirty_metadata(gs, cs, cfg, id) ==
    LET g == gs[id]
        bad(text) == [groups |-> [gs EXCEPT ![id] =
                                    [g EXCEPT !.clean = TRUE, !.status = "BAD",
                                              !.status_text = text]],
                      couples |-> cs]
        up == unpack(g.metadata)
        d == decode(g.metadata)
        parsed == [g EXCEPT !.clean = TRUE, !.status_text = <<>>,
                            !.version = d.version, !.frozen = d.frozen,
                            !.namespace = d.ns,
                            !.service = [migrating |-> d.service_migrating,
                                         job_id |-> d.service_job_id]]
        derived == group_status(g.backends, cfg.forbidden_dht_groups, parsed.service)
    IN
    IF ~up.ok THEN bad(up.what)
    ELSE IF d.err # <<>> THEN bad(d.err)
    ELSE IF g.couple # <<>>
    THEN IF ~check(cs[g.couple[1]], d.couple)
         THEN [groups |-> [gs EXCEPT ![id] =
                             [parsed EXCEPT !.status = "BAD",
                                 !.status_text =
                                     <<"couple in group metadata", d.couple,
                                       "doesn't match to existing one",
                                       cs[g.couple[1]].groups>>]],
               couples |-> cs]
         ELSE [groups |-> [gs EXCEPT ![id] =
                             [parsed EXCEPT !.status = derived.status,
                                            !.status_text = derived.status_text]],
               couples |-> cs]
    ELSE LET made == create_couple([gs EXCEPT ![id] = parsed], cs, d.couple)
         IN [groups |-> [made.groups EXCEPT ![id] =
                            [@ EXCEPT !.status = derived.status,
                                      !.status_text = derived.status_text]],
             couples |-> made.couples]

\* Group::process_metadata() that decodes whether or not the group is clean.
process_metadata_always(gs, cs, cfg, id) ==
    process_dirty_metadata(gs, cs, cfg, id)

\* Group::process_metadata(): nothing is done for a clean group.
process_metadata(gs, cs, cfg, id) ==
    IF gs[id].clean THEN [groups |-> gs, couples |-> cs]
    ELSE process_dirty_metadata(gs, cs, cfg, id)

GroupProcessMetadata(id) ==
    LET r == process_metadata(groups, couples, config, id) IN
    /\ groups' = r.groups
    /\ couples' = r.couples
    /\ last' = Did("Group::process_metadata", id)
    /\ UNCHANGED <<backends, fs, node, config,
                 threads, locks, inventory, parser>>

\* Group::metadata_equals(other): same size and same bytes.
metadata_equals(g, other) == g.metadata = other.metadata

\* The loop of Couple::update_status over the groups after the first
\* (part_002 lines 106-116): the index of the first group whose metadata
\* differs from the first group's, or 0.
RECURSIVE first_unequal(_, _, _)
first_unequal(c, gs, i) ==
    IF i > Len(c.groups) THEN 0
    ELSE IF ~metadata_equals(gs[c.groups[1]], gs[c.groups[i]]) THEN i
    ELSE first_unequal(c, gs, i + 1)

\* The loop over the statuses of the groups (part_002 lines 152-167): each
\* group in turn overwrites the status set for the groups before it.
RECURSIVE scan_statuses(_, _, _)
scan_statuses(c, statuses, i) ==
    IF i > Len(statuses) THEN c
    ELSE scan_statuses(
             IF statuses[i] = "INIT"
             THEN [c EXCEPT !.status = "INIT",
                            !.status_text = "Some groups are uninitialized"]
             ELSE IF statuses[i] = "BAD"
             THEN [c EXCEPT !.status = "BAD",
                            !.status_text = "Some groups are in state BAD"]
             ELSE IF statuses[i] = "BROKEN"
             THEN [c EXCEPT !.status = "BROKEN",
                            !.status_text = "Some groups are in state BROKEN"]
             ELSE IF statuses[i] = "RO" \/ statuses[i] = "MIGRATING"
             THEN [c EXCEPT !.status = "BAD",
                            !.status_text = "Some groups are read-only"]
             ELSE c,
             statuses, i + 1)

\* The branch for groups that are all COUPLED with a couple counted as full
\* only when every group is full.
coupled_status_all_full(c, gs, cfg) ==
    IF \A i \in 1..Len(c.groups) : gs[c.groups[i]].full
    THEN [c EXCEPT !.status = "FULL", !.status_text = "Couple is FULL"]
    ELSE [c EXCEPT !.status = "OK", !.status_text = "Couple is OK"]

\* The branch of Couple::update_status for groups that are all COUPLED
\* (part_002 lines 125-149): the total-space test sets BROKEN and goes on to
\* the test for a full group, which sets FULL or OK.
coupled_status(c, gs, cfg) ==
    LET n == Len(c.groups)
        unequal_space ==
            IF cfg.forbidden_unmatched_group_total_space
               /\ \E i \in 2..n :
                     gs[c.groups[i]].total_space # gs[c.groups[1]].total_space
            THEN [c EXCEPT !.status = "BROKEN",
                           !.status_text = "Couple has unequal total space in groups"]
            ELSE c
    IN IF \E i \in 1..n : gs[c.groups[i]].full
       THEN [unequal_space EXCEPT !.status = "FULL", !.status_text = "Couple is FULL"]
       ELSE [unequal_space EXCEPT !.status = "OK", !.status_text = "Couple is OK"]

\* The end of Couple::update_status for groups that are not all COUPLED
\* (part_002 lines 152-170): the scan, then the closing assignment.
uncoupled_status(c, statuses) ==
    [scan_statuses(c, statuses, 1) EXCEPT
        !.status = "BAD", !.status_text = "Couple is BAD for unknown reason"]

\* Couple::update_status with the test for a frozen group made before the
\* metadata of the groups is compared.
couple_update_status_frozen_first(c, gs, cfg) ==
    LET n == Len(c.groups)
        statuses == [i \in 1..n |-> gs[c.groups[i]].status]
    IN
    IF c.groups = <<>>
    THEN [c EXCEPT !.status = "BAD", !.status_text = "Couple has no groups"]
    ELSE IF \E i \in 1..n : gs[c.groups[i]].frozen
    THEN [c EXCEPT !.status = "FROZEN", !.status_text = "Some groups are frozen"]
    ELSE IF first_unequal(c, gs, 2) # 0
    THEN [c EXCEPT !.status = "BAD",
                   !.status_text = "Groups have different metadata"]
    ELSE IF \A i \in 1..n : statuses[i] = "COUPLED"
    THEN coupled_status(c, gs, cfg)
    ELSE uncoupled_status(c, statuses)

\* The couple after Couple::update_status().
couple_update_status(c, gs, cfg) ==
    LET n == Len(c.groups)
        statuses == [i \in 1..n |-> gs[c.groups[i]].status]
    IN
    IF c.groups = <<>>
    THEN [c EXCEPT !.status = "BAD", !.status_text = "Couple has no groups"]
    ELSE IF first_unequal(c, gs, 2) # 0
    THEN [c EXCEPT !.status = "BAD",
                   !.status_text = "Groups have different metadata"]
    ELSE IF \E i \in 1..n : gs[c.groups[i]].frozen
    THEN [c EXCEPT !.status = "FROZEN", !.status_text = "Some groups are frozen"]
    ELSE IF \A i \in 1..n : statuses[i] = "COUPLED"
    THEN coupled_status(c, gs, cfg)
    ELSE uncoupled_status(c, statuses)

CoupleUpdateStatus(key) ==
    /\ couples' = [couples EXCEPT ![key] = couple_update_status(@, groups, config)]
    /\ last' = [op |-> "Couple::update_status", id |-> key,
                arg |-> FALSE, ret |-> FALSE]
    /\ UNCHANGED <<backends, fs, node, groups, config,
                 threads, locks, inventory, parser>>

---------------------------------------------------------------------------
(* Status derivation of backends and their filesystem                      *)

NoConfig == [forbidden_dht_groups |-> FALSE,
             forbidden_unmatched_group_total_space |-> FALSE,
             reserved_space |-> 0]

NoNode == [load_average |-> 0]

\* Backend 1 takes every combination of the inputs of update_status; the
\* other backends of the FS are enabled, live and writable and differ in size.
StatusBackends ==
    { [stat |-> [BackendStat EXCEPT !.state = st, !.read_only = ro],
       calc |-> [CalculatedBackend EXCEPT
                    !.stalled = stalled,
                    !.stat_commit_rofs_errors_diff = diff,
                    !.total_space = space]] :
        st \in {0, DNET_BACKEND_ENABLED}, ro \in BOOLEAN, stalled \in BOOLEAN,
        diff \in {0, MaxRofs}, space \in 1..MaxSpace }

NeighbourBackends ==
    { b \in StatusBackends :
        /\ b.stat.state = DNET_BACKEND_ENABLED
        /\ ~b.stat.read_only
        /\ ~b.calc.stalled
        /\ b.calc.stat_commit_rofs_errors_diff = 0 }

InitStatus ==
    /\ \E b1 \in StatusBackends :
       \E rest \in [BackendIds \ {1} -> NeighbourBackends] :
          backends = [id \in BackendIds |-> IF id = 1 THEN b1 ELSE rest[id]]
    /\ fs \in {[NewFS EXCEPT !.total_space = t] : t \in 0..MaxSpace}
    /\ node = NoNode
    /\ groups = <<>>
    /\ couples = <<>>
    /\ config = NoConfig
    /\ last = NoOp
    /\ NoConcurrency

NextStatus ==
    \/ \E id \in BackendIds : BackendUpdateStatus(id)
    \/ \E id \in BackendIds : FSAddBackend(id)
    \/ \E id \in BackendIds : FSRemoveBackend(id)
    \/ FSUpdateStatus

SpecStatus == InitStatus /\ [][NextStatus]_vars

---------------------------------------------------------------------------
\* C1: right after Backend::update_status the status is the first match of
\* STALLED (stalled or state not ENABLED), BROKEN (FS broken), RO (read_only
\* or rofs diff > 0), OK, for every combination of the five inputs.
C1_StatusFirstMatch ==
    last.op = "Backend::update_status" =>
        LET b == backends[last.id] IN
        b.calc.status =
            CASE b.calc.stalled \/ b.stat.state # 1 -> "STALLED"
              [] ~(b.calc.stalled \/ b.stat.state # 1)
                 /\ fs.status = "BROKEN" -> "BROKEN"
              [] ~(b.calc.stalled \/ b.stat.state # 1)
                 /\ fs.status # "BROKEN"
                 /\ (b.stat.read_only \/ b.calc.stat_commit_rofs_errors_diff > 0) -> "RO"
              [] OTHER -> "OK"

\* An enabled, live, read-only backend on a broken FS has just been updated.
C1_Witness ==
    /\ last.op = "Backend::update_status"
    /\ fs.status = "BROKEN"
    /\ backends[last.id].stat.read_only
    /\ ~backends[last.id].calc.stalled
    /\ backends[last.id].stat.state = DNET_BACKEND_ENABLED
    /\ backends[last.id].calc.status = "BROKEN"

\* The total_space of the member backends 1..n that are OK or BROKEN.
RECURSIVE C2_CountedSpace(_)
C2_CountedSpace(n) ==
    IF n = 0 THEN 0
    ELSE C2_CountedSpace(n - 1) +
         (IF n \in fs.backends /\ backends[n].calc.status \in {"OK", "BROKEN"}
          THEN backends[n].calc.total_space ELSE 0)

\* C2: right after FS::update_status the FS is BROKEN iff the total_space of
\* its OK and BROKEN member backends adds up to more than its own
\* total_space, and OK otherwise; other members are not counted.
C2_FSBrokenIffOvercommit ==
    last.op = "FS::update_status" =>
        /\ fs.status \in FSStatuses
        /\ fs.status = "BROKEN" <=> C2_CountedSpace(NumBackends) > fs.total_space

\* The FS was just found OK although all members together overcommit it,
\* because a member that is not OK or BROKEN is left out of the sum.
C2_Witness ==
    /\ last.op = "FS::update_status"
    /\ fs.status = "OK"
    /\ \E id \in fs.backends : backends[id].calc.status \in {"RO", "STALLED", "INIT"}
    /\ SumAll(fs.backends, backends) > fs.total_space

---------------------------------------------------------------------------
(* Snapshots arriving at one backend: update and merge                     *)

\* Snapshots that differ in their timestamp, the backend's start time and
\* its count of read-only commit errors.
UpdateStats ==
    { [BackendStat EXCEPT
          !.state = DNET_BACKEND_ENABLED,
          !.ts_sec = ts[1], !.ts_usec = ts[2],
          !.last_start_ts_sec = ls[1], !.last_start_ts_usec = ls[2],
          !.stat_commit_rofs_errors = rofs,
          !.data_path = "/data"] :
        ts \in (1..MaxSec) \X {0, 1}, ls \in {0, 1} \X {0, 1}, rofs \in 0..MaxRofs }

\* The copies of the backend held by another Storage, as merge receives them.
OtherBackends ==
    { [stat |-> stat,
       calc |-> [CalculatedBackend EXCEPT
                    !.stat_commit_rofs_errors_diff = diff,
                    !.base_path = "/data"]] :
        stat \in {s \in UpdateStats : s.last_start_ts_sec = 0 /\ s.last_start_ts_usec = 0},
        diff \in {0, MaxRofs} }

InitUpdate ==
    /\ \E stat \in UpdateStats : backends = [id \in {1} |-> init(stat)]
    /\ fs = NewFS
    /\ node \in {[load_average |-> la] : la \in {0, 200}}
    /\ groups = <<>>
    /\ couples = <<>>
    /\ config = NoConfig
    /\ last = NoOp
    /\ NoConcurrency

NextUpdate ==
    \/ \E id \in DOMAIN backends : \E stat \in UpdateStats : BackendUpdate(id, stat)
    \/ \E id \in DOMAIN backends : BackendUpdateStatus(id)
    \/ \E id \in DOMAIN backends : \E other \in OtherBackends :
       \E have_newer \in BOOLEAN : BackendMerge(id, other, have_newer)

SpecUpdate == InitUpdate /\ [][NextUpdate]_vars

\* C9: over Backend::update and Backend::merge calls the timestamp of the
\* stored snapshot never decreases; merge takes the other copy only when it
\* is strictly newer, reports have_newer when this copy is strictly newer
\* and changes nothing on equal timestamps.
C9_TimestampNeverDecreases ==
    [][\A id \in DOMAIN backends :
          /\ get_timestamp(backends'[id].stat) >= get_timestamp(backends[id].stat)
          /\ (last'.op = "Backend::merge" /\ last'.id = id) =>
                /\ backends'[id] # backends[id] =>
                      get_timestamp(backends'[id].stat) > get_timestamp(backends[id].stat)
                /\ last'.ret # last'.arg =>
                      /\ last'.ret
                      /\ backends'[id] = backends[id]]_vars

\* C10: Backend::update leaves stat_commit_rofs_errors_diff at 0 whenever the
\* start time of the new snapshot is later than the start time of the stored
\* one (each taken whole from its own snapshot), or the error counter went
\* back.
C10_DiffResetOnRestart ==
    [][\A id \in DOMAIN backends :
          LET old == backends[id].stat
              new == backends'[id].stat
              old_start == old.last_start_ts_sec * 1000000 + old.last_start_ts_usec
              new_start == new.last_start_ts_sec * 1000000 + new.last_start_ts_usec
          IN (/\ last'.op = "Backend::update"
              /\ last'.id = id
              /\ \/ old_start < new_start
                 \/ old.stat_commit_rofs_errors > new.stat_commit_rofs_errors)
             => backends'[id].calc.stat_commit_rofs_errors_diff = 0]_vars

\* C11: when Backend::update sees neither a later start time (each start
\* time taken whole from its own snapshot) nor a smaller error counter,
\* stat_commit_rofs_errors_diff grows by exactly the growth of the counter;
\* the diff is never negative; and Backend::update_status on an enabled, live,
\* writable backend of a sound FS gives RO while the diff is positive and OK
\* once it is back to 0.
C11_DiffAccumulates ==
    [][\A id \in DOMAIN backends :
          LET old == backends[id].stat
              new == backends'[id].stat
              old_start == old.last_start_ts_sec * 1000000 + old.last_start_ts_usec
              new_start == new.last_start_ts_sec * 1000000 + new.last_start_ts_usec
              diff == backends[id].calc.stat_commit_rofs_errors_diff
              diff_after == backends'[id].calc.stat_commit_rofs_errors_diff
          IN /\ diff_after >= 0
             /\ (/\ last'.op = "Backend::update"
                 /\ last'.id = id
                 /\ ~(old_start < new_start)
                 /\ ~(old.stat_commit_rofs_errors > new.stat_commit_rofs_errors))
                => diff_after = diff + (new.stat_commit_rofs_errors
                                        - old.stat_commit_rofs_errors)
             /\ (/\ last'.op = "Backend::update_status"
                 /\ last'.id = id
                 /\ old.state = DNET_BACKEND_ENABLED
                 /\ ~old.read_only
                 /\ ~backends[id].calc.stalled
                 /\ fs.status = "OK")
                => backends'[id].calc.status = IF diff > 0 THEN "RO" ELSE "OK"]_vars

\* The counter has grown to MaxRofs with no restart, the diff holds the whole
\* growth, and the backend was found RO for it.
C11_Witness ==
    /\ last.op = "Backend::update_status"
    /\ backends[1].stat.last_start_ts_sec = 0
    /\ backends[1].stat.last_start_ts_usec = 0
    /\ backends[1].stat.stat_commit_rofs_errors = MaxRofs
    /\ backends[1].calc.stat_commit_rofs_errors_diff = MaxRofs
    /\ backends[1].calc.status = "RO"
    /\ backends[1].calc.status_detail = "HasCommitErrors"

---------------------------------------------------------------------------
(* Snapshots arriving at one backend: the rates                            *)

MaxIos == 2

\* Snapshots that differ in their timestamp and either in the I/O counters
\* and the dstat error, or in the byte counters of the commands; write_ios
\* falls as read_ios grows and the byte counters of writes follow those of
\* reads.
RateStats ==
    { [BackendStat EXCEPT
          !.state = DNET_BACKEND_ENABLED,
          !.ts_sec = ts[1], !.ts_usec = ts[2],
          !.read_ios = ios, !.write_ios = MaxIos - ios,
          !.dstat_error = err] :
        ts \in (1..MaxSec) \X {0, 1}, ios \in 0..MaxIos, err \in {0, 1} }
    \cup
    { [BackendStat EXCEPT
          !.state = DNET_BACKEND_ENABLED,
          !.ts_sec = ts[1], !.ts_usec = ts[2],
          !.ell_disk_read_size = disk, !.ell_disk_write_size = disk,
          !.ell_cache_read_size = cache, !.ell_cache_write_size = cache] :
        ts \in (1..MaxSec) \X {0, 1}, disk \in {0, MaxIos}, cache \in {0, MaxIos} }

InitRates ==
    /\ \E stat \in RateStats : backends = [id \in {1} |-> init(stat)]
    /\ fs = NewFS
    /\ node \in {[load_average |-> la] : la \in {0, 200}}
    /\ groups = <<>>
    /\ couples = <<>>
    /\ config = NoConfig
    /\ last = NoOp
    /\ NoConcurrency

NextRates ==
    \E id \in DOMAIN backends : \E stat \in RateStats : BackendUpdate(id, stat)

SpecRates == InitRates /\ [][NextRates]_vars

\* C12: a Backend::update whose snapshot is at most 1000000 microseconds
\* later than the stored one (earlier and equal included) keeps read_rps,
\* write_rps, max_read_rps, max_write_rps and the four command rates.
C12_RatesKeptWithinOneSecond ==
    [][\A id \in DOMAIN backends :
          (/\ last'.op = "Backend::update"
           /\ last'.id = id
           /\ get_timestamp(backends'[id].stat) - get_timestamp(backends[id].stat)
                  <= 1000000)
          => /\ backends'[id].calc.read_rps = backends[id].calc.read_rps
             /\ backends'[id].calc.write_rps = backends[id].calc.write_rps
             /\ backends'[id].calc.max_read_rps = backends[id].calc.max_read_rps
             /\ backends'[id].calc.max_write_rps = backends[id].calc.max_write_rps
             /\ backends'[id].calc.command_stat = backends[id].calc.command_stat]_vars

\* C13: a Backend::update whose snapshot has a smaller read_ios than the
\* stored one keeps read_rps, and one with a smaller write_ios keeps
\* write_rps, whatever the interval and the dstat error.
C13_NoWrappedRate ==
    [][\A id \in DOMAIN backends :
          (last'.op = "Backend::update" /\ last'.id = id)
          => /\ backends'[id].stat.read_ios < backends[id].stat.read_ios
                => backends'[id].calc.read_rps = backends[id].calc.read_rps
             /\ backends'[id].stat.write_ios < backends[id].stat.write_ios
                => backends'[id].calc.write_rps = backends[id].calc.write_rps]_vars

---------------------------------------------------------------------------
(* Derived space figures of one backend                                    *)

MaxBlocks == 2
MaxBsize == 2
MaxLimit == 5
MaxReserved == 3

\* Snapshots that differ in the figures recalculate reads: the blocks of the
\* filesystem (bavail never above blocks), a blob size limit that is absent,
\* below, within or above the sizes of the filesystem, and a base size and a
\* count of removed records that are both zero or both not.
RecalcStats ==
    { [BackendStat EXCEPT
          !.state = DNET_BACKEND_ENABLED,
          !.vfs_blocks = blocks, !.vfs_bavail = bavail, !.vfs_bsize = MaxBsize,
          !.blob_size_limit = limit,
          !.base_size = IF used THEN MaxBlocks ELSE 0,
          !.records_total = MaxBlocks,
          !.records_removed = IF used THEN 1 ELSE 0] :
        blocks \in 0..MaxBlocks, bavail \in 0..MaxBlocks,
        limit \in {0, 1, MaxLimit - 2, MaxLimit}, used \in BOOLEAN }

InitRecalc ==
    /\ \E stat \in {s \in RecalcStats : s.vfs_bavail <= s.vfs_blocks} :
          backends = [id \in {1} |-> init(stat)]
    /\ fs = NewFS
    /\ node = NoNode
    /\ groups = <<>>
    /\ couples = <<>>
    /\ config \in {[NoConfig EXCEPT !.reserved_space = r] : r \in 0..MaxReserved}
    /\ last = NoOp
    /\ NoConcurrency

NextRecalc ==
    \/ \E id \in DOMAIN backends :
       \E stat \in {s \in RecalcStats : s.vfs_bavail <= s.vfs_blocks} :
          BackendUpdate(id, stat)
    \/ \E id \in DOMAIN backends : BackendRecalculate(id)

SpecRecalc == InitRecalc /\ [][NextRecalc]_vars

\* The fields that Backend::recalculate derives.
Derived(calc) ==
    << calc.vfs_total_space, calc.vfs_free_space, calc.vfs_used_space,
       calc.records, calc.fragmentation,
       calc.total_space, calc.used_space, calc.free_space,
       calc.effective_space, calc.effective_free_space >>

\* C14: the derived fields that Backend::recalculate leaves are those it
\* leaves on a freshly initialised backend holding the same snapshot,
\* whatever they were before, and a second call with no update in between
\* leaves every one of them as the first call did.
C14_RecalculateIdempotent ==
    [][\A id \in DOMAIN backends :
          (last'.op = "Backend::recalculate" /\ last'.id = id)
          => /\ Derived(backends'[id].calc) \in
                   { Derived(r.calc) :
                       r \in recalculate(init(backends[id].stat), config) }
             /\ (last.op = "Backend::recalculate" /\ last.id = id)
                => Derived(backends'[id].calc) = Derived(backends[id].calc)]_vars

\* recalculate has just run on a backend with live and removed records and a
\* blob size limit below the size of its filesystem.
C14_Witness ==
    /\ last.op = "Backend::recalculate"
    /\ backends[1].calc.records > 0
    /\ backends[1].calc.fragmentation # ZeroRate
    /\ backends[1].calc.total_space > 0
    /\ backends[1].calc.total_space < backends[1].calc.vfs_total_space

\* C15: right after Backend::recalculate,
\* 0 <= effective_space <= total_space <= vfs_total_space, for every snapshot
\* and every reserved_space from 0 up, with and without a blob size limit.
C15_EffectiveWithinTotal ==
    last.op = "Backend::recalculate" =>
        LET calc == backends[last.id].calc IN
        /\ 0 <= calc.effective_space
        /\ calc.effective_space <= calc.total_space
        /\ calc.total_space <= calc.vfs_total_space

\* recalculate has just run with a reserved space larger than the limited
\* total space of the backend, and effective_space stopped at zero.
C15_Witness ==
    /\ last.op = "Backend::recalculate"
    /\ backends[1].stat.blob_size_limit # 0
    /\ backends[1].calc.total_space > 0
    /\ backends[1].calc.total_space < backends[1].calc.vfs_total_space
    /\ config.reserved_space > backends[1].calc.vfs_total_space
    /\ backends[1].calc.effective_space = 0

---------------------------------------------------------------------------
(* One filesystem updated from its backends                                *)

\* Recalculated backends of one filesystem that report it with different
\* sizes at different times.
FSBackends ==
    { [stat |-> [BackendStat EXCEPT !.state = DNET_BACKEND_ENABLED,
                                    !.ts_sec = sec],
       calc |-> [CalculatedBackend EXCEPT !.vfs_total_space = space,
                                          !.total_space = space]] :
        sec \in 1..MaxSec, space \in 0..MaxSpace }

InitFS ==
    /\ backends \in [BackendIds -> FSBackends]
    /\ fs = NewFS
    /\ node = NoNode
    /\ groups = <<>>
    /\ couples = <<>>
    /\ config = NoConfig
    /\ last = NoOp
    /\ NoConcurrency

NextFS ==
    \/ \E id \in BackendIds : FSAddBackend(id)
    \/ \E id \in BackendIds : FSUpdate(id)

SpecFS == InitFS /\ [][NextFS]_vars

\* C16: FS.total_space is the largest vfs_total_space passed to FS::update
\* so far: it starts at 0 and every FS::update(backend) leaves the larger of
\* the value held before and the backend's vfs_total_space.
C16_TotalSpaceIsMaximum ==
    [][last'.op = "FS::update" =>
          fs'.total_space =
              Max(fs.total_space, backends[last'.id].calc.vfs_total_space)]_vars

---------------------------------------------------------------------------
(* Couple::update_status over couples of every make-up                     *)

MaxCoupleSize == 3

\* The metadata blob that names the couple ids.
MetadataOf(ids) ==
    Map(<<KV("version", Num(2)),
          KV("couple", Array([i \in 1..Len(ids) |-> Num(ids[i])]))>>)

\* The groups a couple is made of: unfrozen groups of every status, frozen
\* and unfrozen groups of either metadata, and COUPLED groups of every size,
\* full or not.
CoupleGroups ==
    { [Group(0) EXCEPT !.metadata = MetadataOf(<<1, 2>>), !.status = st] :
        st \in GroupStatuses }
    \cup
    { [Group(0) EXCEPT !.metadata = md, !.status = st, !.frozen = fr] :
        md \in {MetadataOf(<<1, 2>>), MetadataOf(<<1, 3>>)},
        st \in {"COUPLED", "BROKEN"}, fr \in BOOLEAN }
    \cup
    { [Group(0) EXCEPT !.metadata = MetadataOf(<<1, 2>>), !.status = "COUPLED",
                       !.total_space = sp, !.full = fl] :
        sp \in 0..MaxSpace, fl \in BOOLEAN }

InitCouple ==
    /\ backends = <<>>
    /\ fs = NewFS
    /\ node = NoNode
    /\ config \in {[NoConfig EXCEPT !.forbidden_unmatched_group_total_space = f] :
                      f \in BOOLEAN}
    /\ \E n \in 0..MaxCoupleSize :
       \E gs \in [1..n -> CoupleGroups] :
          LET made == create_couple([id \in 1..n |-> [gs[id] EXCEPT !.id = id]],
                                    <<>>, [i \in 1..n |-> i])
          IN /\ groups = made.groups
             /\ couples = made.couples
    /\ last = NoOp
    /\ NoConcurrency

NextCouple == \E key \in DOMAIN couples : CoupleUpdateStatus(key)

SpecCouple == InitCouple /\ [][NextCouple]_vars

\* The couple Couple::update_status ran on last, and its groups.
UpdatedCouple == couples[last.id]
UpdatedGroups == [i \in 1..Len(UpdatedCouple.groups) |-> groups[UpdatedCouple.groups[i]]]

EqualMetadata == \A i, j \in DOMAIN UpdatedGroups :
                     UpdatedGroups[i].metadata = UpdatedGroups[j].metadata
SomeFrozen == \E i \in DOMAIN UpdatedGroups : UpdatedGroups[i].frozen
AllCoupled == \A i \in DOMAIN UpdatedGroups : UpdatedGroups[i].status = "COUPLED"
UnequalSpace == \E i, j \in DOMAIN UpdatedGroups :
                    UpdatedGroups[i].total_space # UpdatedGroups[j].total_space

\* C4: Couple::update_status decides before any group status is looked at:
\* no groups gives BAD "Couple has no groups"; else two groups with unequal
\* metadata give BAD; else a frozen group gives FROZEN.
C4_ChecksBeforeStatuses ==
    last.op = "Couple::update_status" =>
        /\ UpdatedCouple.groups = <<>> =>
              /\ UpdatedCouple.status = "BAD"
              /\ UpdatedCouple.status_text = "Couple has no groups"
        /\ (UpdatedCouple.groups # <<>> /\ ~EqualMetadata) =>
              UpdatedCouple.status = "BAD"
        /\ (UpdatedCouple.groups # <<>> /\ EqualMetadata /\ SomeFrozen) =>
              UpdatedCouple.status = "FROZEN"

\* A couple of three groups, one of them frozen, whose third group differs
\* in metadata from the first two, was found BAD.
C4_Witness ==
    /\ last.op = "Couple::update_status"
    /\ Len(UpdatedCouple.groups) = 3
    /\ ~EqualMetadata
    /\ SomeFrozen
    /\ UpdatedGroups[1].metadata = UpdatedGroups[2].metadata
    /\ UpdatedCouple.status = "BAD"

\* C5: for a non-empty couple of COUPLED groups with equal metadata, none
\* frozen and no violation of the total-space rule, Couple::update_status
\* gives FULL if some group is full and OK if none is.
C5_FullOrOk ==
    (/\ last.op = "Couple::update_status"
     /\ UpdatedCouple.groups # <<>>
     /\ EqualMetadata /\ ~SomeFrozen /\ AllCoupled
     /\ ~(config.forbidden_unmatched_group_total_space /\ UnequalSpace))
    => UpdatedCouple.status =
           IF \E i \in DOMAIN UpdatedGroups : UpdatedGroups[i].full
           THEN "FULL" ELSE "OK"

\* Three COUPLED groups, exactly one of them full, gave a FULL couple.
C5_Witness ==
    /\ last.op = "Couple::update_status"
    /\ Len(UpdatedCouple.groups) = 3
    /\ EqualMetadata /\ ~SomeFrozen /\ AllCoupled
    /\ ~(config.forbidden_unmatched_group_total_space /\ UnequalSpace)
    /\ Cardinality({i \in DOMAIN UpdatedGroups : UpdatedGroups[i].full}) = 1
    /\ UpdatedCouple.status = "FULL"

\* C6: for a non-empty couple of COUPLED groups with equal metadata and none
\* frozen, when forbidden_unmatched_group_total_space is set and two groups
\* differ in total_space, Couple::update_status gives BROKEN.
C6_UnequalSpaceIsBroken ==
    (/\ last.op = "Couple::update_status"
     /\ UpdatedCouple.groups # <<>>
     /\ EqualMetadata /\ ~SomeFrozen /\ AllCoupled
     /\ config.forbidden_unmatched_group_total_space /\ UnequalSpace)
    => UpdatedCouple.status = "BROKEN"

\* C7: for a non-empty couple with equal metadata, no frozen group and a
\* group that is not COUPLED, Couple::update_status gives BROKEN if a group is
\* BROKEN, else BAD if a group is BAD, RO or MIGRATING, else INIT.
C7_WorstGroupStatus ==
    (/\ last.op = "Couple::update_status"
     /\ UpdatedCouple.groups # <<>>
     /\ EqualMetadata /\ ~SomeFrozen /\ ~AllCoupled)
    => LET some(S) == \E i \in DOMAIN UpdatedGroups : UpdatedGroups[i].status \in S
       IN UpdatedCouple.status =
              IF some({"BROKEN"}) THEN "BROKEN"
              ELSE IF some({"BAD", "RO", "MIGRATING"}) THEN "BAD"
              ELSE "INIT"

---------------------------------------------------------------------------
(* Group status derivation over every make-up of the member backends       *)

MaxMembers == 3

RECURSIVE SeqsUpTo(_, _)
SeqsUpTo(S, n) ==
    IF n = 0 THEN {<<>>}
    ELSE LET shorter == SeqsUpTo(S, n - 1)
         IN shorter \cup {Append(q, x) : q \in {r \in shorter : Len(r) = n - 1}, x \in S}

\* Metadata of group 1 coupled with itself, in service or not.
ServiceMetadata(migrating) ==
    Map(<<KV("version", Num(2)), KV("couple", Array(<<Num(1)>>)),
          KV("namespace", Raw("ns")), KV("frozen", Bool(FALSE)),
          KV("service", Map(<<KV("status", Raw(IF migrating THEN "MIGRATING" ELSE "NONE")),
                              KV("job_id", Raw("job"))>>))>>)

InitGroupStatus ==
    /\ backends = <<>>
    /\ fs = NewFS
    /\ node = NoNode
    /\ config \in {[NoConfig EXCEPT !.forbidden_dht_groups = f] : f \in BOOLEAN}
    /\ couples = <<>>
    /\ \E member \in SeqsUpTo(MemberStatuses, MaxMembers) :
          groups = [id \in {1} |-> [Group(id) EXCEPT !.backends = member]]
    /\ last = NoOp
    /\ NoConcurrency

NextGroupStatus ==
    \/ \E id \in DOMAIN groups : \E migrating \in BOOLEAN :
          GroupSaveMetadata(id, ServiceMetadata(migrating))
    \/ \E id \in DOMAIN groups : GroupProcessMetadata(id)

SpecGroupStatus == InitGroupStatus /\ [][NextGroupStatus]_vars

\* C3: when Group::process_metadata runs on a dirty blob that decodes and
\* does not conflict with the bound couple, the status is the first match
\* of: no backends INIT; several backends with forbidden_dht_groups BROKEN;
\* a BAD backend BROKEN; an RO backend MIGRATING while migrating, else RO; a
\* backend other than OK, RO, BAD gives BAD; else COUPLED.
C3_GroupStatusFirstMatch ==
    [][\A id \in DOMAIN groups :
          LET g == groups[id]
              d == decode(g.metadata)
              member == g.backends
              some(S) == \E i \in DOMAIN member : member[i] \in S
          IN (/\ last'.op = "Group::process_metadata"
              /\ last'.id = id
              /\ ~g.clean
              /\ unpack(g.metadata).ok
              /\ d.err = <<>>
              /\ g.couple # <<>> => couples[g.couple[1]].groups = d.couple)
             => groups'[id].status =
                   CASE Len(member) = 0 -> "INIT"
                     [] Len(member) = 1 /\ some({"BAD"}) -> "BROKEN"
                     [] Len(member) = 1 /\ some({"RO"}) ->
                            IF d.service_migrating THEN "MIGRATING" ELSE "RO"
                     [] Len(member) = 1 /\ some({"INIT", "STALLED", "BROKEN"}) -> "BAD"
                     [] Len(member) = 1 /\ some({"OK"}) -> "COUPLED"
                     [] Len(member) > 1 /\ config.forbidden_dht_groups -> "BROKEN"
                     [] Len(member) > 1 /\ ~config.forbidden_dht_groups /\ some({"BAD"}) ->
                            "BROKEN"
                     [] Len(member) > 1 /\ ~config.forbidden_dht_groups /\ ~some({"BAD"})
                        /\ some({"RO"}) ->
                            IF d.service_migrating THEN "MIGRATING" ELSE "RO"
                     [] Len(member) > 1 /\ ~config.forbidden_dht_groups
                        /\ ~some({"BAD", "RO"}) /\ some(MemberStatuses \ {"OK"}) -> "BAD"
                     [] OTHER -> "COUPLED"]_vars

\* A group whose backends include an RO one ahead of a BAD one was processed
\* from a dirty blob and came out BROKEN, and it is bound to its couple.
C3_Witness ==
    /\ last.op = "Group::process_metadata"
    /\ groups[1].clean
    /\ groups[1].couple = <<(<<1>>)>>
    /\ Len(groups[1].backends) = 3
    /\ groups[1].backends[1] = "RO"
    /\ groups[1].backends[3] = "BAD"
    /\ ~config.forbidden_dht_groups
    /\ groups[1].service.migrating
    /\ groups[1].status = "BROKEN"

---------------------------------------------------------------------------
(* Groups receiving and processing metadata                                *)

NumGroups == 3

GroupIds == 1..NumGroups

\* The metadata written for a group names the group and one other group, in
\* ascending order; a blob can also be bytes that do not unpack.
GroupBlobs(id) ==
    { MetadataOf(ids) : ids \in {p \in GroupIds \X GroupIds :
                                    p[1] < p[2] /\ id \in {p[1], p[2]}} }
    \cup {InvalidBlob}

InitGroup ==
    /\ backends = <<>>
    /\ fs = NewFS
    /\ node = NoNode
    /\ config = NoConfig
    /\ couples = <<>>
    /\ groups = [id \in GroupIds |-> [Group(id) EXCEPT !.backends = <<"OK">>]]
    /\ last = NoOp
    /\ NoConcurrency

NextGroup ==
    \/ \E id \in DOMAIN groups : \E blob \in GroupBlobs(id) : GroupSaveMetadata(id, blob)
    \/ \E id \in DOMAIN groups : GroupProcessMetadata(id)

SpecGroup == InitGroup /\ [][NextGroup]_vars

\* C8: right after Group::process_metadata on a group whose metadata names
\* the couple ids C, the group is bound to a couple whose group ids are
\* exactly C, in order, or the status of the group is BAD.
C8_BoundToNamedCoupleOrBad ==
    (/\ last.op = "Group::process_metadata"
     /\ unpack(groups[last.id].metadata).ok
     /\ decode(groups[last.id].metadata).err = <<>>)
    => LET g == groups[last.id] IN
       \/ /\ g.couple # <<>>
          /\ couples[g.couple[1]].groups = decode(g.metadata).couple
       \/ g.status = "BAD"

---------------------------------------------------------------------------
(* Couples named by metadata in any order and of any content               *)

NumParsed == 2

ParsedIds == 1..NumParsed

\* Metadata whose couple array names the first and the last group in either
\* order, or the id 0; the same in descending order as a bare array of the
\* old format; couple arrays with an element that is a string or a
\* negative integer; and the blob of no bytes.
ParseBlobs ==
    { MetadataOf(ids) : ids \in {<<1, NumParsed>>, <<NumParsed, 1>>, <<0, 1>>} }
    \cup { Array(<<Num(NumParsed), Num(1)>>), EmptyBlob }
    \cup { Map(<<KV("version", Num(2)), KV("couple", Array(<<Num(1), bad>>))>>) :
             bad \in {Raw("2"), Num(-2)} }

InitParse ==
    /\ backends = <<>>
    /\ fs = NewFS
    /\ node = NoNode
    /\ config = NoConfig
    /\ couples = <<>>
    /\ groups = [id \in ParsedIds |-> [Group(id) EXCEPT !.backends = <<"OK">>]]
    /\ last = NoOp
    /\ NoConcurrency

NextParse ==
    \/ \E id \in ParsedIds : \E blob \in ParseBlobs : GroupSaveMetadata(id, blob)
    \/ \E id \in ParsedIds : GroupProcessMetadata(id)

SpecParse == InitParse /\ [][NextParse]_vars

\* The ids joined by ':', built from the last id backwards.
RECURSIVE C17_Joined(_)
C17_Joined(ids) ==
    IF Len(ids) = 1 THEN to_string(ids[1])
    ELSE C17_Joined(SubSeq(ids, 1, Len(ids) - 1)) \o ":" \o to_string(ids[Len(ids)])

\* C17: every couple lists its groups in ascending order of their ids and
\* its key is those ids joined by ':' with no separator at the end; when a
\* couple has just been created and bound, every group it lists refers to
\* it; and Couple::check(ids) is true exactly for the list of its group ids.
C17_CoupleOrderKeyAndCheck ==
    [][\A k \in DOMAIN couples' :
          LET c == couples'[k] IN
          /\ \A i \in 1..Len(c.groups) - 1 : c.groups[i] <= c.groups[i + 1]
          /\ c.key = C17_Joined(c.groups)
          /\ \A ids \in SeqsUpTo(0..NumParsed, NumParsed + 1) :
                check(c, ids) <=> ids = c.groups
          /\ k \notin DOMAIN couples =>
                \A i \in 1..Len(c.groups) : groups'[c.groups[i]].couple = <<k>>]_vars

\* A group whose metadata names the couple in descending order has just been
\* bound to the couple of the ids in ascending order ("1:2").
C17_Witness ==
    /\ last.op = "Group::process_metadata"
    /\ groups[last.id].metadata = MetadataOf(<<NumParsed, 1>>)
    /\ groups[last.id].couple = << <<1, NumParsed>> >>
    /\ couples[<<1, NumParsed>>].key = to_string(1) \o ":" \o to_string(NumParsed)
    /\ couples[<<1, NumParsed>>].groups = <<1, NumParsed>>
    /\ \A id \in {1, NumParsed} : groups[id].couple = << <<1, NumParsed>> >>

\* C18: Group::save_metadata(blob) given the bytes it already stores, no
\* bytes twice included, leaves the stored blob alone and the group clean;
\* given other bytes it stores them and leaves the group dirty.
C18_SaveMetadata ==
    [][last'.op = "Group::save_metadata" =>
          LET g == groups[last'.id]
              after == groups'[last'.id]
          IN IF last'.arg = g.metadata
             THEN after.metadata = g.metadata /\ after.clean
             ELSE after.metadata = last'.arg /\ ~after.clean]_vars

\* C19: Group::process_metadata() on a clean group changes no group and no
\* couple, and it always leaves its group clean, so that a second call with
\* no save_metadata in between is a call on a clean group.
C19_ProcessMetadataIdempotent ==
    [][last'.op = "Group::process_metadata" =>
          /\ groups'[last'.id].clean
          /\ groups[last'.id].clean => (groups' = groups /\ couples' = couples)]_vars

\* process_metadata has just run on a group that was never given metadata,
\* and has left it as it was made: INIT, unbound and with no status text.
C19_Witness ==
    /\ last.op = "Group::process_metadata"
    /\ groups[last.id].metadata = EmptyBlob
    /\ groups[last.id].clean
    /\ groups[last.id].status = "INIT"
    /\ groups[last.id].status_text = <<>>
    /\ groups[last.id].couple = <<>>

\* Whether a blob carries a couple value, and that value: the bare array of
\* the old format or the value of the key 'couple' of a map.
C20_HasCouple(blob) ==
    \/ blob.t = "ARRAY"
    \/ blob.t = "MAP" /\ \E i \in DOMAIN blob.m : blob.m[i].key = Raw("couple")

C20_CoupleValue(blob) ==
    IF blob.t = "ARRAY" THEN blob
    ELSE blob.m[CHOOSE i \in DOMAIN blob.m : blob.m[i].key = Raw("couple")].val

\* An array of integers above zero in ascending order.
C20_Valid(v) ==
    /\ v.t = "ARRAY"
    /\ \A i \in DOMAIN v.a : v.a[i].t = "POSITIVE_INTEGER" /\ v.a[i].n > 0
    /\ \A i, j \in DOMAIN v.a : i < j => v.a[i].n < v.a[j].n

\* C20: Group::process_metadata() on a dirty group whose couple value is not
\* an ascending array of integers above zero leaves the group BAD with a
\* status text, creates no couple and binds the group to none.
C20_CoupleValidation ==
    [][(/\ last'.op = "Group::process_metadata"
        /\ ~groups[last'.id].clean
        /\ C20_HasCouple(groups[last'.id].metadata)
        /\ ~C20_Valid(C20_CoupleValue(groups[last'.id].metadata)))
       => /\ groups'[last'.id].status = "BAD"
          /\ groups'[last'.id].status_text # <<>>
          /\ couples' = couples
          /\ groups'[last'.id].couple = groups[last'.id].couple]_vars

---------------------------------------------------------------------------
(* Metadata with values of wrong types                                     *)

NumDecoded == 1

DecodedIds == 1..NumDecoded

\* A metadata map with all five keys.
FullMetadata(version, couple, ns, frozen, service) ==
    Map(<<KV("version", version), KV("couple", couple), KV("namespace", ns),
          KV("frozen", frozen), KV("service", service)>>)

ServiceMap(status, job_id) == Map(<<KV("status", status), KV("job_id", job_id)>>)

\* Two blobs that decode, to different fields; blobs in which one value has
\* another type than the decoder expects; a bare array of ids; an integer and
\* a string at the top level; bytes that do not unpack; and no bytes.
DecodeBlobs ==
    LET couple == Array(<<Num(1), Num(2)>>)
        service == ServiceMap(Raw("MIGRATING"), Raw("job"))
    IN { MetadataOf(<<1, 2>>),
         FullMetadata(Num(2), couple, Raw("ns"), Bool(TRUE), service),
         FullMetadata(Raw("2"), couple, Raw("ns"), Bool(TRUE), service),
         FullMetadata(Num(2), Num(1), Raw("ns"), Bool(TRUE), service),
         FullMetadata(Num(2), couple, Num(1), Bool(TRUE), service),
         FullMetadata(Num(2), couple, Raw("ns"), Num(1), service),
         FullMetadata(Num(2), couple, Raw("ns"), Bool(TRUE), Raw("MIGRATING")),
         FullMetadata(Num(2), couple, Raw("ns"), Bool(TRUE),
                      ServiceMap(Num(1), Raw("job"))),
         FullMetadata(Num(2), couple, Raw("ns"), Bool(TRUE),
                      ServiceMap(Raw("MIGRATING"), Num(1))),
         Array(<<Num(1), Raw("2")>>),
         couple, Num(7), Raw("couple"),
         InvalidBlob, EmptyBlob }

InitDecode ==
    /\ backends = <<>>
    /\ fs = NewFS
    /\ node = NoNode
    /\ config = NoConfig
    /\ couples = <<>>
    /\ groups = [id \in 1..NumDecoded + 1 |->
                    [Group(id) EXCEPT !.backends = <<"OK">>]]
    /\ last = NoOp
    /\ NoConcurrency

NextDecode ==
    \/ \E id \in DecodedIds : \E blob \in DecodeBlobs : GroupSaveMetadata(id, blob)
    \/ \E id \in DecodedIds : GroupProcessMetadata(id)

SpecDecode == InitDecode /\ [][NextDecode]_vars

\* The type the decoder expects under each key it recognises.
C21_Expected(key) ==
    CASE key = "version" -> "POSITIVE_INTEGER"
      [] key = "couple" -> "ARRAY"
      [] key = "namespace" -> "RAW"
      [] key = "frozen" -> "BOOLEAN"
      [] key = "service" -> "MAP"
      [] key = "status" -> "RAW"
      [] key = "job_id" -> "RAW"

\* An entry of the map m, under one of the keys, whose value has another
\* type than expected.
C21_WrongEntry(m, keys) ==
    \E i \in DOMAIN m :
        /\ m[i].key.t = "RAW"
        /\ m[i].key.s \in keys
        /\ m[i].val.t # C21_Expected(m[i].key.s)

\* A blob that does not unpack, or in which a recognised key, a key of the
\* service map or an element of the couple array has a value of a wrong type.
C21_DecodeError(blob) ==
    \/ blob.t \in {"EMPTY", "INVALID"}
    \/ /\ blob.t = "ARRAY"
       /\ \E i \in DOMAIN blob.a : blob.a[i].t # "POSITIVE_INTEGER"
    \/ /\ blob.t = "MAP"
       /\ \/ C21_WrongEntry(blob.m,
                 {"version", "couple", "namespace", "frozen", "service"})
          \/ \E i \in DOMAIN blob.m :
                /\ blob.m[i].key = Raw("service")
                /\ blob.m[i].val.t = "MAP"
                /\ C21_WrongEntry(blob.m[i].val.m, {"status", "job_id"})
          \/ \E i \in DOMAIN blob.m :
                /\ blob.m[i].key = Raw("couple")
                /\ blob.m[i].val.t = "ARRAY"
                /\ \E j \in DOMAIN blob.m[i].val.a :
                      blob.m[i].val.a[j].t # "POSITIVE_INTEGER"

\* C21: Group::process_metadata() on a dirty group whose blob does not
\* unpack, or holds a value of a wrong type under a recognised key, leaves the
\* group BAD with a status text, leaves its version, frozen, namespace,
\* service and couple as they were, and changes no other group and no couple.
C21_DecodeErrorIsLocal ==
    [][(/\ last'.op = "Group::process_metadata"
        /\ ~groups[last'.id].clean
        /\ C21_DecodeError(groups[last'.id].metadata))
       => LET g == groups[last'.id]
              after == groups'[last'.id]
          IN /\ after.status = "BAD"
             /\ after.status_text # <<>>
             /\ after.version = g.version
             /\ after.frozen = g.frozen
             /\ after.namespace = g.namespace
             /\ after.service = g.service
             /\ after.couple = g.couple
             /\ couples' = couples
             /\ \A id \in DOMAIN groups \ {last'.id} : groups'[id] = groups[id]]_vars

---------------------------------------------------------------------------
(* Concurrent calls of Group::metadata_equals                              *)

NumThreads == 2

Threads == 1..NumThreads

EqualsGroups == 1..NumThreads + 1

\* A thread that is in no call.
IdleThread == [pc |-> "idle", self |-> 0, other |-> 0, g1 |-> 0, g2 |-> 0,
               ret |-> FALSE]

\* The two groups in the order the caller named them.
lock_order_as_called(self, other, gs) == <<self, other>>

\* g1 and g2 of Group::metadata_equals: this and other, swapped when this
\* has the higher address.
lock_order(self, other, gs) ==
    IF gs[self].addr > gs[other].addr THEN <<other, self>> ELSE <<self, other>>

\* self.metadata_equals(other) is entered by thread t.
EqualsCall(t, self, other) ==
    /\ threads[t].pc = "idle"
    /\ LET order == lock_order(self, other, groups) IN
       threads' = [threads EXCEPT ![t] =
           [pc |-> "guard1", self |-> self, other |-> other,
            g1 |-> order[1], g2 |-> order[2], ret |-> FALSE]]
    /\ UNCHANGED <<backends, fs, node, groups, couples, config, last,
                   locks, inventory, parser>>

\* LockGuard<SpinLock> guard1(g1->m_metadata_lock)
EqualsGuard1(t) ==
    /\ threads[t].pc = "guard1"
    /\ locks[threads[t].g1] = 0
    /\ locks' = [locks EXCEPT ![threads[t].g1] = t]
    /\ threads' = [threads EXCEPT ![t].pc = "guard2"]
    /\ UNCHANGED <<backends, fs, node, groups, couples, config, last, inventory, parser>>

\* LockGuard<SpinLock> guard2(g2->m_metadata_lock)
EqualsGuard2(t) ==
    /\ threads[t].pc = "guard2"
    /\ locks[threads[t].g2] = 0
    /\ locks' = [locks EXCEPT ![threads[t].g2] = t]
    /\ threads' = [threads EXCEPT ![t].pc = "compare"]
    /\ UNCHANGED <<backends, fs, node, groups, couples, config, last, inventory, parser>>

\* The comparison of sizes and bytes, then the guards released in reverse
\* order as the call returns.
EqualsCompare(t) ==
    /\ threads[t].pc = "compare"
    /\ threads' = [threads EXCEPT
           ![t].pc = "release2",
           ![t].ret = metadata_equals(groups[threads[t].g1], groups[threads[t].g2])]
    /\ UNCHANGED <<backends, fs, node, groups, couples, config, last,
                   locks, inventory, parser>>

EqualsRelease2(t) ==
    /\ threads[t].pc = "release2"
    /\ locks' = [locks EXCEPT ![threads[t].g2] = 0]
    /\ threads' = [threads EXCEPT ![t].pc = "release1"]
    /\ UNCHANGED <<backends, fs, node, groups, couples, config, last, inventory, parser>>

EqualsRelease1(t) ==
    /\ threads[t].pc = "release1"
    /\ locks' = [locks EXCEPT ![threads[t].g1] = 0]
    /\ threads' = [threads EXCEPT ![t] = IdleThread]
    /\ UNCHANGED <<backends, fs, node, groups, couples, config, last, inventory, parser>>

\* Group::save_metadata by a thread in no other call: one critical section
\* under the metadata lock of the group.
LockedSaveMetadata(id, blob) ==
    /\ locks[id] = 0
    /\ groups' = [groups EXCEPT ![id] = save_metadata(@, blob)]
    /\ UNCHANGED <<backends, fs, node, couples, config, last,
                   threads, locks, inventory, parser>>

EqualsBlobs == {MetadataOf(<<1, 2>>), InvalidBlob}

\* Groups laid out in memory in the order of their ids or against it.
InitEquals ==
    /\ backends = <<>>
    /\ fs = NewFS
    /\ node = NoNode
    /\ config = NoConfig
    /\ couples = <<>>
    /\ \E up \in BOOLEAN :
          groups = [id \in EqualsGroups |->
                       [Group(id) EXCEPT
                           !.metadata = MetadataOf(<<1, 2>>),
                           !.addr = IF up THEN id ELSE NumThreads + 2 - id]]
    /\ last = NoOp
    /\ threads = [t \in Threads |-> IdleThread]
    /\ locks = [id \in EqualsGroups |-> 0]
    /\ inventory = <<>>
    /\ parser = <<>>

EqualsStep(t) ==
    \/ EqualsGuard1(t)
    \/ EqualsGuard2(t)
    \/ EqualsCompare(t)
    \/ EqualsRelease2(t)
    \/ EqualsRelease1(t)

NextEquals ==
    \/ \E t \in Threads : \E self, other \in EqualsGroups :
          self # other /\ EqualsCall(t, self, other)
    \/ \E t \in Threads : EqualsStep(t)
    \/ \E id \in EqualsGroups : \E blob \in EqualsBlobs : LockedSaveMetadata(id, blob)

\* A thread spinning on a lock gets it if the lock is free again and again;
\* a thread that can go on without a lock does go on.
SpecEquals ==
    /\ InitEquals
    /\ [][NextEquals]_vars
    /\ \A t \in Threads :
          /\ SF_vars(EqualsGuard1(t))
          /\ SF_vars(EqualsGuard2(t))
          /\ WF_vars(EqualsCompare(t) \/ EqualsRelease2(t) \/ EqualsRelease1(t))

InCall(t) == threads[t].pc # "idle"

\* Thread t holds both metadata locks of its call.
HoldsBoth(t) == threads[t].pc \in {"compare", "release2"}

\* Thread t spins on a lock that another thread holds.
Spinning(t) ==
    \/ threads[t].pc = "guard1" /\ locks[threads[t].g1] # 0
    \/ threads[t].pc = "guard2" /\ locks[threads[t].g2] # 0

\* The locks of a call are its two groups, the lower address first.
C22_AddressOrder ==
    \A t \in Threads : InCall(t) =>
        /\ {threads[t].g1, threads[t].g2} = {threads[t].self, threads[t].other}
        /\ groups[threads[t].g1].addr < groups[threads[t].g2].addr

\* The answer a call is about to return is the equality of the two blobs.
C22_Result ==
    \A t \in Threads : threads[t].pc = "release2" =>
        threads[t].ret =
            (groups[threads[t].self].metadata = groups[threads[t].other].metadata)

\* While a call is in progress some call can take a step.
C22_NoDeadlock ==
    (\E t \in Threads : InCall(t)) => \E t \in Threads : InCall(t) /\ ~Spinning(t)

\* C22: concurrent calls of metadata_equals on distinct groups, crossed or
\* over more groups, take the two metadata locks in address order, never
\* block each other for good, each return, and answer true exactly when
\* the two blobs are equal.
C22_MetadataEqualsDeadlockFree ==
    /\ [](C22_AddressOrder /\ C22_Result /\ C22_NoDeadlock)
    /\ \A t \in Threads : InCall(t) ~> ~InCall(t)

\* a.metadata_equals(b) holds both locks and is about to answer false
\* while b.metadata_equals(a) spins on its first lock.
C22_Witness ==
    /\ HoldsBoth(1) /\ threads[1].pc = "release2" /\ ~threads[1].ret
    /\ threads[2].self = threads[1].other /\ threads[2].other = threads[1].self
    /\ Spinning(2)

---------------------------------------------------------------------------
(* The locks taken by Group::process_metadata                              *)

\* The lock of the key -> Couple map of Storage, among the metadata locks
\* that are named by their group ids.
CouplesLock == 0

\* The place of each kind of lock in the lock order.
LockRank(kind) ==
    CASE kind = "storage" -> 1
      [] kind = "node" -> 2
      [] kind = "backend" -> 3
      [] kind = "fs" -> 4
      [] kind = "group" -> 5
      [] kind = "couple" -> 6
      [] kind = "metadata" -> 7

\* A thread in no call; held is the stack of the locks it holds, each
\* <<kind, id>>.
IdleWorker == [pc |-> "idle", self |-> 0, held |-> <<>>]

\* Group::process_metadata reaches its call of Storage::create_couple: the
\* metadata decodes and the group has no couple.
calls_create_couple(g) ==
    /\ unpack(g.metadata).ok
    /\ decode(g.metadata).err = <<>>
    /\ g.couple = <<>>

\* process_metadata() is entered on a group that is not clean.
ProcessCall(t, id) ==
    /\ threads[t].pc = "idle"
    /\ ~groups[id].clean
    /\ threads' = [threads EXCEPT ![t] = [pc |-> "backends", self |-> id, held |-> <<>>]]
    /\ UNCHANGED <<backends, fs, node, groups, couples, config, last,
                   locks, inventory, parser>>

\* ReadGuard<RWSpinLock> guard(m_backends_lock): shared, and no writer is
\* ever inside a call here.
ProcessBackendsLock(t) ==
    /\ threads[t].pc = "backends"
    /\ threads' = [threads EXCEPT
           ![t].pc = "copied",
           ![t].held = Append(@, <<"group", threads[t].self>>)]
    /\ UNCHANGED <<backends, fs, node, groups, couples, config, last,
                   locks, inventory, parser>>

\* The end of the block that copies m_backends.
ProcessBackendsUnlock(t) ==
    /\ threads[t].pc = "copied"
    /\ threads' = [threads EXCEPT
           ![t].pc = "metadata",
           ![t].held = SubSeq(@, 1, Len(@) - 1)]
    /\ UNCHANGED <<backends, fs, node, groups, couples, config, last,
                   locks, inventory, parser>>

\* LockGuard<SpinLock> guard(m_metadata_lock), held to the end of the call.
ProcessMetadataLock(t) ==
    /\ threads[t].pc = "metadata"
    /\ locks[threads[t].self] = 0
    /\ locks' = [locks EXCEPT ![threads[t].self] = t]
    /\ threads' = [threads EXCEPT
           ![t].pc = "decode",
           ![t].held = Append(@, <<"metadata", threads[t].self>>)]
    /\ UNCHANGED <<backends, fs, node, groups, couples, config, last, inventory, parser>>

\* The second test of m_clean and the decoding, up to the return or to the
\* call of Storage::create_couple.
ProcessDecode(t) ==
    /\ threads[t].pc = "decode"
    /\ LET id == threads[t].self IN
       IF groups[id].clean
       THEN /\ threads' = [threads EXCEPT ![t].pc = "return"]
            /\ UNCHANGED groups
       ELSE IF calls_create_couple(groups[id])
       THEN /\ threads' = [threads EXCEPT ![t].pc = "create_couple"]
            /\ UNCHANGED groups
       ELSE /\ threads' = [threads EXCEPT ![t].pc = "return"]
            /\ groups' = process_dirty_metadata(groups, couples, config, id).groups
    /\ UNCHANGED <<backends, fs, node, couples, config, last, locks, inventory, parser>>

\* Storage::create_couple takes the lock of the couple map.
ProcessCreateLock(t) ==
    /\ threads[t].pc = "create_couple"
    /\ locks[CouplesLock] = 0
    /\ locks' = [locks EXCEPT ![CouplesLock] = t]
    /\ threads' = [threads EXCEPT
           ![t].pc = "created",
           ![t].held = Append(@, <<"storage", CouplesLock>>)]
    /\ UNCHANGED <<backends, fs, node, groups, couples, config, last, inventory, parser>>

\* The couple is created and bound, the map lock is released and the status
\* of the group is derived.
ProcessCreate(t) ==
    /\ threads[t].pc = "created"
    /\ LET after == process_dirty_metadata(groups, couples, config, threads[t].self)
       IN /\ groups' = after.groups
          /\ couples' = after.couples
    /\ locks' = [locks EXCEPT ![CouplesLock] = 0]
    /\ threads' = [threads EXCEPT
           ![t].pc = "return",
           ![t].held = SubSeq(@, 1, Len(@) - 1)]
    /\ UNCHANGED <<backends, fs, node, config, last, inventory, parser>>

\* The metadata lock is released as the call returns.
ProcessReturn(t) ==
    /\ threads[t].pc = "return"
    /\ locks' = [locks EXCEPT ![threads[t].self] = 0]
    /\ threads' = [threads EXCEPT ![t] = IdleWorker]
    /\ UNCHANGED <<backends, fs, node, groups, couples, config, last, inventory, parser>>

NumLocked == 2

LockedGroups == 1..NumLocked

LockedBlobs == {MetadataOf(<<1, 2>>), MetadataOf(<<1>>), InvalidBlob}

InitLocks ==
    /\ backends = <<>>
    /\ fs = NewFS
    /\ node = NoNode
    /\ config = NoConfig
    /\ couples = <<>>
    /\ groups = [id \in LockedGroups |-> [Group(id) EXCEPT !.backends = <<"OK">>]]
    /\ last = NoOp
    /\ threads = [t \in Threads |-> IdleWorker]
    /\ locks = [l \in LockedGroups \cup {CouplesLock} |-> 0]
    /\ inventory = <<>>
    /\ parser = <<>>

NextLocks ==
    \/ \E id \in LockedGroups : \E blob \in LockedBlobs : LockedSaveMetadata(id, blob)
    \/ \E t \in Threads : \E id \in LockedGroups : ProcessCall(t, id)
    \/ \E t \in Threads : ProcessBackendsLock(t)
    \/ \E t \in Threads : ProcessBackendsUnlock(t)
    \/ \E t \in Threads : ProcessMetadataLock(t)
    \/ \E t \in Threads : ProcessDecode(t)
    \/ \E t \in Threads : ProcessCreateLock(t)
    \/ \E t \in Threads : ProcessCreate(t)
    \/ \E t \in Threads : ProcessReturn(t)

SpecLocks == InitLocks /\ [][NextLocks]_vars

\* C23: the lock order Storage-map locks, Node, Backend, FS, Group, Couple,
\* metadata lock is never violated: a thread that holds a lock takes no lock
\* that comes earlier in the order; in particular it takes no Storage-map,
\* Group or Couple lock while it holds the metadata lock of a group.
C23_LockOrder ==
    \A t \in Threads :
        \A i, j \in 1..Len(threads[t].held) :
            i < j => LockRank(threads[t].held[i][1]) <= LockRank(threads[t].held[j][1])

---------------------------------------------------------------------------
(* Inventory: the host -> DC resolver and its two dispatch queues          *)

MaxQueue == 2

Hosts == {"h1", "h2"}

\* What the inventory worker can answer to "get_dc_by_host": a string, an
\* object of another type, or nothing but an exception.
Replies == {Raw("dc1"), Num(1), InvalidBlob}

\* The vectors load_hosts() can return: records of the cache database,
\* each fresh (timestamp not before the start of the load) or not.
Loaded ==
    {<<>>, <<[host |-> "h1", dc |-> "dc1", fresh |-> FALSE]>>,
     <<[host |-> "h1", dc |-> "dc2", fresh |-> TRUE]>>}

\* Inventory::Inventory(): both queues empty, nothing to run.  reload is
\* the execute_reload that is running, stop is how far stop() has come and
\* access is the context of the last access to m_host_info.
NewInventory ==
    [ service |-> FALSE, conn |-> FALSE, stopped |-> FALSE,
      host_info |-> <<>>, timer |-> 0,
      update_queue |-> <<>>, common_queue |-> <<>>,
      reload |-> [pc |-> "idle", hosts |-> <<>>],
      started |-> FALSE, stop |-> "no", access |-> "none" ]

Task(kind, host, arg) == [kind |-> kind, host |-> host, arg |-> arg]

\* A caller that is in no call of get_dc_by_host.
IdleCaller == [pc |-> "idle", host |-> "", result |-> ""]

\* Inventory::fetch_from_cocaine(info): -1 without a service, on an
\* exception and on a reply that is no string; otherwise 0 and the DC.
fetch_from_cocaine(service, reply) ==
    IF ~service THEN [rc |-> -1, dc |-> ""]
    ELSE IF ~unpack(reply).ok THEN [rc |-> -1, dc |-> ""]
    ELSE IF reply.t # "RAW" THEN [rc |-> -1, dc |-> ""]
    ELSE [rc |-> 0, dc |-> reply.s]

\* The map after each record of hosts was stored under its host.
RECURSIVE store_hosts(_, _)
store_hosts(map, hosts) ==
    IF hosts = <<>> THEN map
    ELSE store_hosts([h \in DOMAIN map \cup {Head(hosts).host} |->
                         IF h = Head(hosts).host THEN Head(hosts).dc ELSE map[h]],
                     Tail(hosts))

\* The cache database updates that the initial download dispatches: one for
\* each fresh record.
RECURSIVE fresh_updates(_)
fresh_updates(hosts) ==
    IF hosts = <<>> THEN <<>>
    ELSE (IF Head(hosts).fresh
          THEN <<Task("cache_db_update", Head(hosts).host, FALSE)>> ELSE <<>>)
         \o fresh_updates(Tail(hosts))

\* execute_get_dc_by_host that also keeps the fallback in the map.
execute_get_dc_by_host_caching(inv, host, reply) ==
    LET fetched == fetch_from_cocaine(inv.service, reply) IN
    IF host \in DOMAIN inv.host_info
    THEN [result |-> inv.host_info[host], host_info |-> inv.host_info, updates |-> <<>>]
    ELSE IF fetched.rc # 0
    THEN [result |-> host,
          host_info |-> store_hosts(inv.host_info, <<[host |-> host, dc |-> host]>>),
          updates |-> <<>>]
    ELSE [result |-> fetched.dc, host_info |-> inv.host_info,
          updates |-> <<Task("cache_db_update", host, FALSE)>>]

\* Inventory::execute_get_dc_by_host: the DC of the map; for a host that is
\* not there the DC the worker answers, with a cache database update
\* dispatched, or the host itself when the fetch fails.
execute_get_dc_by_host(inv, host, reply) ==
    LET fetched == fetch_from_cocaine(inv.service, reply) IN
    IF host \in DOMAIN inv.host_info
    THEN [result |-> inv.host_info[host], host_info |-> inv.host_info, updates |-> <<>>]
    ELSE IF fetched.rc # 0
    THEN [result |-> host, host_info |-> inv.host_info, updates |-> <<>>]
    ELSE [result |-> fetched.dc, host_info |-> inv.host_info,
          updates |-> <<Task("cache_db_update", host, FALSE)>>]

InventoryOnly == UNCHANGED <<backends, fs, node, groups, couples, config, locks, parser>>

\* Inventory::init(): cocaine_connect() gets the service or does not.
InventoryInit(connected) ==
    /\ ~inventory.started
    /\ inventory.stop = "no"
    /\ inventory' = [inventory EXCEPT !.service = connected]
    /\ UNCHANGED <<last, threads>>
    /\ InventoryOnly

\* Inventory::download_initial() in the thread of its caller: with a
\* database the loaded records are stored in the map and the fresh ones
\* sent to the update queue; the first reload is put on the timer.
DownloadInitial(connected, hosts) ==
    /\ ~inventory.started
    /\ inventory.stop = "no"
    /\ inventory' =
          IF connected
          THEN [inventory EXCEPT
                  !.started = TRUE, !.conn = TRUE,
                  !.host_info = store_hosts(@, hosts),
                  !.access = IF hosts = <<>> THEN @ ELSE "caller",
                  !.update_queue = @ \o fresh_updates(hosts),
                  !.timer = @ + 1]
          ELSE [inventory EXCEPT !.started = TRUE, !.timer = @ + 1]
    /\ UNCHANGED <<last, threads>>
    /\ InventoryOnly

\* The time of a dispatch_after_f is reached: execute_reload enters the
\* update queue.
TimerFire ==
    /\ inventory.timer > 0
    /\ inventory' = [inventory EXCEPT
          !.timer = @ - 1,
          !.update_queue = Append(@, Task("reload", "", FALSE))]
    /\ UNCHANGED <<last, threads>>
    /\ InventoryOnly

\* The concurrent queue starts the block at its head.
ReloadStart ==
    /\ inventory.update_queue # <<>>
    /\ Head(inventory.update_queue).kind = "reload"
    /\ inventory' = [inventory EXCEPT
          !.update_queue = Tail(@),
          !.reload = [pc |-> "load", hosts |-> <<>>]]
    /\ UNCHANGED <<last, threads>>
    /\ InventoryOnly

\* execute_reload up to load_hosts: the reconnections; without a database
\* the reload goes straight to its test of m_stopped.
ReloadLoad(service, connected, hosts) ==
    /\ inventory.reload.pc = "load"
    /\ inventory.service => service
    /\ inventory.conn => connected
    /\ inventory' = [inventory EXCEPT
          !.service = service,
          !.conn = connected,
          !.reload = IF connected THEN [pc |-> "save", hosts |-> hosts]
                     ELSE [pc |-> "check", hosts |-> <<>>]]
    /\ UNCHANGED <<last, threads>>
    /\ InventoryOnly

\* dispatch_async_f(m_common_queue, SaveUpdateData, execute_save_update)
ReloadDispatchSave ==
    /\ inventory.reload.pc = "save"
    /\ Len(inventory.common_queue) < MaxQueue
    /\ inventory' = [inventory EXCEPT
          !.common_queue = Append(@, Task("save_update", "", inventory.reload.hosts)),
          !.reload = [pc |-> "check", hosts |-> <<>>]]
    /\ UNCHANGED <<last, threads>>
    /\ InventoryOnly

\* if (!self.m_stopped)
ReloadCheckStopped ==
    /\ inventory.reload.pc = "check"
    /\ inventory' = [inventory EXCEPT
          !.reload.pc = IF inventory.stopped THEN "idle" ELSE "next"]
    /\ UNCHANGED <<last, threads>>
    /\ InventoryOnly

\* self.dispatch_next_reload(), and the block ends.
ReloadDispatchNext ==
    /\ inventory.reload.pc = "next"
    /\ inventory' = [inventory EXCEPT !.timer = @ + 1, !.reload.pc = "idle"]
    /\ UNCHANGED <<last, threads>>
    /\ InventoryOnly

\* Inventory::execute_cache_db_update in the update queue.
CacheDbUpdate ==
    /\ inventory.update_queue # <<>>
    /\ Head(inventory.update_queue).kind = "cache_db_update"
    /\ inventory' = [inventory EXCEPT !.update_queue = Tail(@)]
    /\ UNCHANGED <<last, threads>>
    /\ InventoryOnly

\* Inventory::execute_save_update in the common queue.
SaveUpdate ==
    /\ inventory.common_queue # <<>>
    /\ Head(inventory.common_queue).kind = "save_update"
    /\ inventory' = [inventory EXCEPT
          !.common_queue = Tail(@),
          !.host_info = store_hosts(@, Head(inventory.common_queue).arg),
          !.access = IF Head(inventory.common_queue).arg = <<>> THEN @ ELSE "common"]
    /\ UNCHANGED <<last, threads>>
    /\ InventoryOnly

\* Inventory::get_dc_by_host(addr): dispatch_sync_f on the common queue.
GetDcByHost(t, host) ==
    /\ threads[t].pc = "idle"
    /\ Len(inventory.common_queue) < MaxQueue
    /\ threads' = [threads EXCEPT ![t] = [pc |-> "sync", host |-> host, result |-> ""]]
    /\ inventory' = [inventory EXCEPT
          !.common_queue = Append(@, Task("get_dc_by_host", host, t))]
    /\ UNCHANGED last
    /\ InventoryOnly

\* execute_get_dc_by_host in the common queue, and the return of the call
\* that waits for it.
ExecuteGetDcByHost(reply) ==
    /\ inventory.common_queue # <<>>
    /\ Head(inventory.common_queue).kind = "get_dc_by_host"
    /\ LET task == Head(inventory.common_queue)
           got == execute_get_dc_by_host(inventory, task.host, reply)
       IN /\ got.updates # <<>> => Len(inventory.update_queue) < MaxQueue
          /\ inventory' = [inventory EXCEPT
                !.common_queue = Tail(@),
                !.host_info = got.host_info,
                !.access = "common",
                !.update_queue = @ \o got.updates]
          /\ threads' = [threads EXCEPT ![task.arg] = IdleCaller]
          /\ last' = [op |-> "Inventory::get_dc_by_host", id |-> task.host,
                      arg |-> fetch_from_cocaine(inventory.service, reply).rc = 0,
                      ret |-> got.result]
    /\ InventoryOnly

\* Inventory::stop(): m_stopped = true
StopSetFlag ==
    /\ inventory.stop = "no"
    /\ inventory' = [inventory EXCEPT !.stopped = TRUE, !.stop = "flag"]
    /\ UNCHANGED <<last, threads>>
    /\ InventoryOnly

\* dispatch_barrier_sync_f(m_update_queue, nullptr, empty_func): enqueued
StopBarrier ==
    /\ inventory.stop = "flag"
    /\ inventory' = [inventory EXCEPT
          !.stop = "barrier",
          !.update_queue = Append(@, Task("barrier", "", FALSE))]
    /\ UNCHANGED <<last, threads>>
    /\ InventoryOnly

\* The barrier runs once every block submitted before it has finished;
\* then dispatch_sync_f(m_common_queue, nullptr, empty_func) is enqueued.
StopBarrierDone ==
    /\ inventory.stop = "barrier"
    /\ Head(inventory.update_queue).kind = "barrier"
    /\ inventory.reload.pc = "idle"
    /\ inventory' = [inventory EXCEPT
          !.stop = "sync",
          !.update_queue = Tail(@),
          !.common_queue = Append(@, Task("sync", "", FALSE))]
    /\ UNCHANGED <<last, threads>>
    /\ InventoryOnly

\* The empty block runs in the common queue and stop() returns.
StopReturn ==
    /\ inventory.stop = "sync"
    /\ Head(inventory.common_queue).kind = "sync"
    /\ inventory' = [inventory EXCEPT !.stop = "returned", !.common_queue = Tail(@)]
    /\ UNCHANGED <<last, threads>>
    /\ InventoryOnly

InitInventory ==
    /\ backends = <<>>
    /\ fs = NewFS
    /\ node = NoNode
    /\ config = NoConfig
    /\ couples = <<>>
    /\ groups = <<>>
    /\ last = NoOp
    /\ threads = [t \in Threads |-> IdleCaller]
    /\ locks = <<>>
    /\ inventory = NewInventory
    /\ parser = <<>>

NextInventory ==
    \/ \E connected \in BOOLEAN : InventoryInit(connected)
    \/ \E connected \in BOOLEAN : \E hosts \in Loaded : DownloadInitial(connected, hosts)
    \/ TimerFire
    \/ ReloadStart
    \/ \E service, connected \in BOOLEAN : \E hosts \in Loaded :
          ReloadLoad(service, connected, hosts)
    \/ ReloadDispatchSave
    \/ ReloadCheckStopped
    \/ ReloadDispatchNext
    \/ CacheDbUpdate
    \/ SaveUpdate
    \/ \E t \in Threads : \E host \in Hosts : GetDcByHost(t, host)
    \/ \E reply \in Replies : ExecuteGetDcByHost(reply)
    \/ StopSetFlag
    \/ StopBarrier
    \/ StopBarrierDone
    \/ StopReturn

SpecInventory == InitInventory /\ [][NextInventory]_vars

\* An inventory task is on the timer, in a queue or running.
InventoryTaskPending ==
    \/ inventory.timer > 0
    \/ inventory.reload.pc # "idle"
    \/ \E i \in 1..Len(inventory.update_queue) :
          inventory.update_queue[i].kind \in {"reload", "cache_db_update"}
    \/ \E i \in 1..Len(inventory.common_queue) :
          inventory.common_queue[i].kind = "save_update"

\* C24: once Inventory::stop() has returned, no inventory task
\* (execute_reload, execute_cache_db_update, execute_save_update) runs or is
\* still scheduled, however stop() interleaves with a reload that is
\* running or waits for its timer.
C24_StopDrainsQueues == inventory.stop = "returned" => ~InventoryTaskPending

\* C25: every read and every change of the host -> HostInfo map is made on
\* the serial common queue: by get_dc_by_host, by the save step of a reload
\* and by the initial download.
C25_MapOnCommonQueue == inventory.access \in {"none", "common"}

\* C26: get_dc_by_host returns a value whatever the worker does; when the
\* host is not in the map and the fetch fails, the call returns the host
\* name, the map is left as it was, no cache database update is dispatched,
\* and the host is still unknown so that the next call fetches again.
C26_FetchFailureSwallowed ==
    [][ /\ inventory.common_queue # <<>>
        /\ Head(inventory.common_queue).kind = "get_dc_by_host"
        /\ inventory'.common_queue = Tail(inventory.common_queue)
        => LET task == Head(inventory.common_queue) IN
           /\ threads'[task.arg].pc = "idle"
           /\ last'.op = "Inventory::get_dc_by_host"
           /\ last'.ret # ""
           /\ (task.host \notin DOMAIN inventory.host_info /\ ~last'.arg) =>
                 /\ last'.ret = task.host
                 /\ inventory'.host_info = inventory.host_info
                 /\ inventory'.update_queue = inventory.update_queue
                 /\ task.host \notin DOMAIN inventory'.host_info ]_vars

\* A call for a host that the map does not hold has just returned the host
\* itself after a failed fetch, and a second call for it is waiting.
C26_Witness ==
    /\ last.op = "Inventory::get_dc_by_host"
    /\ ~last.arg
    /\ last.ret = last.id
    /\ last.id \notin DOMAIN inventory.host_info
    /\ inventory.common_queue # <<>>
    /\ Head(inventory.common_queue).kind = "get_dc_by_host"
    /\ Head(inventory.common_queue).host = last.id

---------------------------------------------------------------------------
(* StatsParser: one monitor-stats document, consumed event by event        *)

\* One step of the walk through a document.  kind says where the walk is:
\* "timestamp" (x, y: tv_sec, tv_usec), "la" (x: one element of
\* procfs.vm.la), "interface" (name; x, y: receive.bytes, transmit.bytes),
\* "backend" (x: backend_id, at the start of a member of backends),
\* "base_size" (x: base_size of one entry of base_stats), "command" (name:
\* LOOKUP, READ or WRITE; sub: cache or disk; scope: internal or outside;
\* x, y: size, time), "backend_end", and "stat" (key: the name of a member
\* of stats, cut at its dots; x: count).
Event(kind, name, sub, scope, key, x, y) ==
    [kind |-> kind, name |-> name, sub |-> sub, scope |-> scope, key |-> key,
     x |-> x, y |-> y]

TimestampEvent(sec, usec) == Event("timestamp", "", "", "", <<>>, sec, usec)
LaEvent(la) == Event("la", "", "", "", <<>>, la, 0)
InterfaceEvent(name, rx, tx) == Event("interface", name, "", "", <<>>, rx, tx)
BackendEvent(id) == Event("backend", "", "", "", <<>>, id, 0)
BaseSizeEvent(size) == Event("base_size", "", "", "", <<>>, size, 0)
CommandEvent(name, sub, scope, size, time) ==
    Event("command", name, sub, scope, <<>>, size, time)
BackendEndEvent == Event("backend_end", "", "", "", <<>>, 0, 0)
StatEvent(id, what, code, count) ==
    Event("stat", "", "", "", <<"eblob", id, "disk", what, "errors", code>>, count, 0)

\* The NodeStat and the BackendStat of a parser that has read nothing: all
\* members zero.
NewNodeStat == [ts_sec |-> 0, ts_usec |-> 0, la1 |-> 0, tx_bytes |-> 0, rx_bytes |-> 0]

NewBackendStat ==
    [ backend_id |-> 0, max_blob_base_size |-> 0,
      ell_cache_write_size |-> 0, ell_cache_write_time |-> 0,
      ell_disk_write_size |-> 0, ell_disk_write_time |-> 0,
      ell_cache_read_size |-> 0, ell_cache_read_time |-> 0,
      ell_disk_read_size |-> 0, ell_disk_read_time |-> 0 ]

\* A parser about to read the document doc.  la_seen counts the elements of
\* la read so far, current is the BackendStat that is being filled.
NewParser(doc) ==
    [ good |-> TRUE, node_stat |-> NewNodeStat, la_seen |-> 0,
      backend_stats |-> <<>>, current |-> NewBackendStat, rofs_errors |-> <<>>,
      input |-> doc, doc |-> doc ]

\* The byte counters after an interface, the loopback included.
add_interface_with_lo(stat, ev) ==
    [stat EXCEPT !.rx_bytes = @ + ev.x, !.tx_bytes = @ + ev.y]

\* The byte counters after an interface: lo is left out.
add_interface(stat, ev) ==
    IF ev.name = "lo" THEN stat
    ELSE [stat EXCEPT !.rx_bytes = @ + ev.x, !.tx_bytes = @ + ev.y]

\* The BackendStat at the start of a backend that is filled on top of what
\* the backend before it left.
start_backend_keeping(current, id) == [current EXCEPT !.backend_id = id]

\* The BackendStat at the start of a member of backends: all zero.
start_backend(current, id) == [NewBackendStat EXCEPT !.backend_id = id]

\* max_blob_base_size as the base_size read last.
max_base_size_last(current, size) == [current EXCEPT !.max_blob_base_size = size]

\* max_blob_base_size after one more entry of base_stats.
max_base_size(current, size) ==
    IF size > current.max_blob_base_size
    THEN [current EXCEPT !.max_blob_base_size = size] ELSE current

\* The command counters after the size and time of one scope: LOOKUP and
\* READ count as reads, WRITE as writes, each into cache or disk.
add_command(current, ev) ==
    CASE ev.name \in {"LOOKUP", "READ"} /\ ev.sub = "cache" ->
            [current EXCEPT !.ell_cache_read_size = @ + ev.x,
                            !.ell_cache_read_time = @ + ev.y]
      [] ev.name \in {"LOOKUP", "READ"} /\ ev.sub = "disk" ->
            [current EXCEPT !.ell_disk_read_size = @ + ev.x,
                            !.ell_disk_read_time = @ + ev.y]
      [] ev.name = "WRITE" /\ ev.sub = "cache" ->
            [current EXCEPT !.ell_cache_write_size = @ + ev.x,
                            !.ell_cache_write_time = @ + ev.y]
      [] ev.name = "WRITE" /\ ev.sub = "disk" ->
            [current EXCEPT !.ell_disk_write_size = @ + ev.x,
                            !.ell_disk_write_time = @ + ev.y]
      [] OTHER -> current

\* A member of stats is taken for a read-only error count whatever its code.
is_rofs_key_any_code(key) ==
    /\ Len(key) = 6
    /\ key[1] = "eblob" /\ key[3] = "disk" /\ key[4] = "stat_commit"
    /\ key[5] = "errors"

\* The name of a member of stats is eblob.<id>.disk.stat_commit.errors.30
is_rofs_key(key) ==
    /\ Len(key) = 6
    /\ key[1] = "eblob" /\ key[3] = "disk" /\ key[4] = "stat_commit"
    /\ key[5] = "errors" /\ key[6] = 30

\* The side table after a member of stats.
add_stat(rofs, ev) ==
    IF is_rofs_key(ev.key)
    THEN [id \in DOMAIN rofs \cup {ev.key[2]} |->
             IF id = ev.key[2] THEN ev.x ELSE rofs[id]]
    ELSE rofs

\* The parser after the next event of its input.
consume(p, ev) ==
    LET q == [p EXCEPT !.input = Tail(@)] IN
    CASE ev.kind = "timestamp" ->
            [q EXCEPT !.node_stat.ts_sec = ev.x, !.node_stat.ts_usec = ev.y]
      [] ev.kind = "la" ->
            [q EXCEPT !.la_seen = @ + 1,
                      !.node_stat.la1 = IF p.la_seen = 0 THEN ev.x ELSE @]
      [] ev.kind = "interface" ->
            [q EXCEPT !.node_stat = add_interface(@, ev)]
      [] ev.kind = "backend" ->
            [q EXCEPT !.current = start_backend(@, ev.x)]
      [] ev.kind = "base_size" ->
            [q EXCEPT !.current = max_base_size(@, ev.x)]
      [] ev.kind = "command" ->
            [q EXCEPT !.current = add_command(@, ev)]
      [] ev.kind = "backend_end" ->
            [q EXCEPT !.backend_stats = Append(@, p.current)]
      [] ev.kind = "stat" ->
            [q EXCEPT !.rofs_errors = add_stat(@, ev)]

ParserOnly ==
    UNCHANGED <<backends, fs, node, groups, couples, config, last,
                threads, locks, inventory>>

\* The handler of one kind of event takes the event at the head of the
\* input.
Parse(kind) ==
    /\ parser.input # <<>>
    /\ Head(parser.input).kind = kind
    /\ parser' = consume(parser, Head(parser.input))
    /\ ParserOnly

ParseTimestamp == Parse("timestamp")
ParseLa == Parse("la")
ParseInterface == Parse("interface")
ParseBackend == Parse("backend")
ParseBaseSize == Parse("base_size")
ParseCommand == Parse("command")
ParseBackendEnd == Parse("backend_end")
ParseStat == Parse("stat")

\* The node part of a document: the loopback is the interface number lo.
NodeEvents(lo) ==
    LET eth == <<InterfaceEvent("eth0", 3, 2), InterfaceEvent("eth1", 1, 1)>>
        loopback == <<InterfaceEvent("lo", 7, 5)>>
    IN <<TimestampEvent(5, 7), LaEvent(2), LaEvent(6), LaEvent(8)>>
       \o SubSeq(eth, 1, lo - 1) \o loopback \o SubSeq(eth, lo, 2)

\* One member of backends: the largest of its three base_stats entries is
\* entry number top, and its commands are those of cmds.
BackendEvents(id, top, cmds) ==
    <<BackendEvent(id)>>
    \o [i \in 1..3 |-> BaseSizeEvent(IF i = top THEN 4 ELSE i)]
    \o cmds \o <<BackendEndEvent>>

FirstCommands ==
    <<CommandEvent("LOOKUP", "cache", "internal", 3, 1),
      CommandEvent("LOOKUP", "disk", "outside", 1, 2),
      CommandEvent("READ", "cache", "outside", 2, 2),
      CommandEvent("READ", "disk", "internal", 1, 1),
      CommandEvent("WRITE", "cache", "internal", 2, 1),
      CommandEvent("WRITE", "cache", "outside", 1, 3),
      CommandEvent("WRITE", "disk", "outside", 4, 1)>>

SecondCommands ==
    <<CommandEvent("READ", "cache", "internal", 1, 3),
      CommandEvent("WRITE", "disk", "internal", 2, 2)>>

\* The stats part: backend 11 has a code 9 and a code 30 entry, backend 20
\* a code 30 entry or, when not both, only a code 9 entry.
StatsEvents(both) ==
    <<StatEvent(11, "stat_commit", 9, 6), StatEvent(11, "stat_commit", 30, 4),
      StatEvent(11, "stat", 30, 2),
      StatEvent(20, "stat_commit", IF both THEN 30 ELSE 9, 3)>>

Documents ==
    { NodeEvents(lo)
      \o BackendEvents(11, top, FirstCommands)
      \o BackendEvents(20, 4 - top, SecondCommands)
      \o StatsEvents(both) :
        lo \in 1..3, top \in 1..3, both \in BOOLEAN }

InitStats ==
    /\ backends = <<>>
    /\ fs = NewFS
    /\ node = NoNode
    /\ config = NoConfig
    /\ couples = <<>>
    /\ groups = <<>>
    /\ last = NoOp
    /\ threads = <<>>
    /\ locks = <<>>
    /\ inventory = <<>>
    /\ \E doc \in Documents : parser = NewParser(doc)

NextStats ==
    \/ ParseTimestamp
    \/ ParseLa
    \/ ParseInterface
    \/ ParseBackend
    \/ ParseBaseSize
    \/ ParseCommand
    \/ ParseBackendEnd
    \/ ParseStat

SpecStats == InitStats /\ [][NextStats]_vars

\* The whole document has been read.
ParseDone == parser.input = <<>>

RECURSIVE SeqSum(_)
SeqSum(q) == IF q = <<>> THEN 0 ELSE Head(q) + SeqSum(Tail(q))

\* The events of the document of one kind.
EventsOf(kind) == {i \in 1..Len(parser.doc) : parser.doc[i].kind = kind}

\* The member of backends, counted in document order, that event i lies in.
Owner(i) == Cardinality({j \in 1..i : parser.doc[j].kind = "backend"})

\* The bytes received and sent over the interfaces named in names.
InterfaceBytes(names) ==
    [ rx |-> SeqSum([i \in 1..Len(parser.doc) |->
                 IF i \in EventsOf("interface") /\ parser.doc[i].name \in names
                 THEN parser.doc[i].x ELSE 0]),
      tx |-> SeqSum([i \in 1..Len(parser.doc) |->
                 IF i \in EventsOf("interface") /\ parser.doc[i].name \in names
                 THEN parser.doc[i].y ELSE 0]) ]

\* C27: when a document has been parsed, tx_bytes is the sum of
\* transmit.bytes over the interfaces less the share of lo, rx_bytes the
\* same for receive.bytes, wherever lo stands among the interfaces, and la1
\* is the first element of procfs.vm.la.
C27_NodeStatTotals ==
    ParseDone =>
        LET all == InterfaceBytes({"eth0", "eth1", "lo"})
            lo == InterfaceBytes({"lo"})
            first == CHOOSE i \in EventsOf("la") : \A j \in EventsOf("la") : i <= j
        IN /\ parser.good
           /\ parser.node_stat.tx_bytes = all.tx - lo.tx
           /\ parser.node_stat.rx_bytes = all.rx - lo.rx
           /\ parser.node_stat.la1 = parser.doc[first].x

\* A document whose loopback stands between the two other interfaces has
\* been parsed.
C27_Witness ==
    /\ ParseDone
    /\ parser.doc[6].name = "lo"
    /\ parser.node_stat.tx_bytes = 3
    /\ parser.node_stat.rx_bytes = 4

\* The size and time that the commands named in names add up to in the
\* section sub of backend k.
CommandTotals(k, names, sub) ==
    [ size |-> SeqSum([i \in 1..Len(parser.doc) |->
                 IF /\ i \in EventsOf("command") /\ Owner(i) = k
                    /\ parser.doc[i].name \in names /\ parser.doc[i].sub = sub
                 THEN parser.doc[i].x ELSE 0]),
      time |-> SeqSum([i \in 1..Len(parser.doc) |->
                 IF /\ i \in EventsOf("command") /\ Owner(i) = k
                    /\ parser.doc[i].name \in names /\ parser.doc[i].sub = sub
                 THEN parser.doc[i].y ELSE 0]) ]

\* C28: the command counters of each parsed backend are the sums of
\* internal and outside size (time) over LOOKUP and READ for the reads and
\* over WRITE for the writes, cache and disk apart, of that backend alone.
C28_CommandCounters ==
    ParseDone =>
        \A k \in 1..Len(parser.backend_stats) :
            LET stat == parser.backend_stats[k]
                cache_read == CommandTotals(k, {"LOOKUP", "READ"}, "cache")
                disk_read == CommandTotals(k, {"LOOKUP", "READ"}, "disk")
                cache_write == CommandTotals(k, {"WRITE"}, "cache")
                disk_write == CommandTotals(k, {"WRITE"}, "disk")
            IN /\ stat.ell_cache_read_size = cache_read.size
               /\ stat.ell_cache_read_time = cache_read.time
               /\ stat.ell_disk_read_size = disk_read.size
               /\ stat.ell_disk_read_time = disk_read.time
               /\ stat.ell_cache_write_size = cache_write.size
               /\ stat.ell_cache_write_time = cache_write.time
               /\ stat.ell_disk_write_size = disk_write.size
               /\ stat.ell_disk_write_time = disk_write.time

\* Two backends have been parsed: the first read 5 bytes from the cache in
\* a LOOKUP and a READ, the second has no cache write of its own.
C28_Witness ==
    /\ ParseDone
    /\ Len(parser.backend_stats) = 2
    /\ parser.backend_stats[1].ell_cache_read_size = 5
    /\ parser.backend_stats[1].ell_cache_write_size = 3
    /\ parser.backend_stats[2].ell_cache_write_size = 0

\* The code 30 entries of the stats object.
RofsEntries ==
    {i \in EventsOf("stat") :
        parser.doc[i].key \in
            {<<"eblob", id, "disk", "stat_commit", "errors", 30>> : id \in {11, 20}}}

\* C29: the rofs side table holds one entry for each backend that has an
\* entry eblob.<backend_id>.disk.stat_commit.errors.30 in stats, with the
\* count of that entry; entries with another code make no table entry.
C29_RofsTable ==
    ParseDone =>
        /\ DOMAIN parser.rofs_errors = {parser.doc[i].key[2] : i \in RofsEntries}
        /\ \A i \in RofsEntries :
              parser.rofs_errors[parser.doc[i].key[2]] = parser.doc[i].x

\* A document in which backend 20 has only a code 9 entry has been parsed:
\* the table holds backend 11 alone.
C29_Witness ==
    /\ ParseDone
    /\ DOMAIN parser.rofs_errors = {11}
    /\ parser.rofs_errors[11] = 4

\* C30: there is one BackendStat for each member of backends, in document
\* order, and its max_blob_base_size is the largest base_size among the
\* base_stats of that member, wherever it stands.
C30_MaxBlobBaseSize ==
    ParseDone =>
        /\ Len(parser.backend_stats) = Cardinality(EventsOf("backend"))
        /\ \A k \in 1..Len(parser.backend_stats) :
              LET start == CHOOSE i \in EventsOf("backend") : Owner(i) = k
                  sizes == {parser.doc[i].x : i \in {j \in EventsOf("base_size") : Owner(j) = k}}
              IN /\ parser.backend_stats[k].backend_id = parser.doc[start].x
                 /\ parser.backend_stats[k].max_blob_base_size \in sizes
                 /\ \A size \in sizes : size <= parser.backend_stats[k].max_blob_base_size

\* The largest base_size of the first backend was its first entry and that
\* of the second its last.
C30_Witness ==
    /\ ParseDone
    /\ parser.doc[9].kind = "base_size" /\ parser.doc[9].x = 4
    /\ parser.backend_stats[1].max_blob_base_size = 4
    /\ parser.backend_stats[2].backend_id = 20
    /\ parser.backend_stats[2].max_blob_base_size = 4

---------------------------------------------------------------------------
(* Snapshots with and without a dstat error                                *)

\* Snapshots on whole seconds that differ in read_ios, in the bytes read
\* from disk and in the dstat error.
DstatStats ==
    { [BackendStat EXCEPT
          !.state = DNET_BACKEND_ENABLED,
          !.ts_sec = sec, !.read_ios = ios, !.dstat_error = err,
          !.ell_disk_read_size = disk] :
        sec \in 1..MaxSec, ios \in {0, MaxIos}, err \in {0, 1}, disk \in {0, MaxIos} }

InitDstat ==
    /\ \E stat \in DstatStats : backends = [id \in {1} |-> init(stat)]
    /\ fs = NewFS
    /\ node = NoNode
    /\ groups = <<>>
    /\ couples = <<>>
    /\ config = NoConfig
    /\ last = NoOp
    /\ NoConcurrency

NextDstat ==
    \E id \in DOMAIN backends : \E stat \in DstatStats : BackendUpdate(id, stat)

SpecDstat == InitDstat /\ [][NextDstat]_vars

\* C31: a Backend::update whose snapshot has a dstat error keeps read_rps,
\* write_rps, max_read_rps, max_write_rps and the four command rates,
\* whatever the interval; one more than a second later and without a dstat
\* error sets read_rps to the whole part of the read_ios difference over
\* the interval and rewrites a command rate only if its byte counter did
\* not go back.
C31_RatesNeedCleanDstat ==
    [][\A id \in DOMAIN backends :
          (last'.op = "Backend::update" /\ last'.id = id)
          => LET old == backends[id]
                 new == backends'[id]
                 d_us == get_timestamp(new.stat) - get_timestamp(old.stat)
             IN /\ new.stat.dstat_error # 0
                   => /\ new.calc.read_rps = old.calc.read_rps
                      /\ new.calc.write_rps = old.calc.write_rps
                      /\ new.calc.max_read_rps = old.calc.max_read_rps
                      /\ new.calc.max_write_rps = old.calc.max_write_rps
                      /\ new.calc.command_stat = old.calc.command_stat
                /\ (d_us > 1000000 /\ new.stat.dstat_error = 0)
                   => /\ new.calc.read_rps =
                           ((new.stat.read_ios - old.stat.read_ios) * 1000000) \div d_us
                      /\ new.stat.ell_disk_read_size < old.stat.ell_disk_read_size
                         => /\ new.calc.command_stat.ell_disk_read_rate
                                  = old.calc.command_stat.ell_disk_read_rate
                            /\ new.calc.command_stat.ell_net_read_rate
                                  = old.calc.command_stat.ell_net_read_rate]_vars

\* C32: right after Backend::recalculate, with a blob size limit
\* total_space is the lesser of the limit and the size of the filesystem,
\* used_space is base_size and free_space is the lesser of the free space
\* of the filesystem and total_space - used_space, or 0 when base_size is
\* above total_space; without a limit the three are those of the
\* filesystem; and effective_free_space is free_space less the reserved
\* part total_space - effective_space, or 0.
C32_SpaceAccounting ==
    last.op = "Backend::recalculate" =>
        LET stat == backends[last.id].stat
            calc == backends[last.id].calc
            vfs_total == stat.vfs_blocks * stat.vfs_bsize
            vfs_free == stat.vfs_bavail * stat.vfs_bsize
            reserved == calc.total_space - calc.effective_space
        IN /\ stat.blob_size_limit > 0 =>
                /\ calc.total_space \in {stat.blob_size_limit, vfs_total}
                /\ calc.total_space <= stat.blob_size_limit
                /\ calc.total_space <= vfs_total
                /\ calc.used_space = stat.base_size
                /\ calc.free_space >= 0
                /\ stat.base_size >= calc.total_space => calc.free_space = 0
                /\ stat.base_size < calc.total_space =>
                      /\ calc.free_space \in {vfs_free, calc.total_space - stat.base_size}
                      /\ calc.free_space <= vfs_free
                      /\ calc.free_space <= calc.total_space - stat.base_size
           /\ stat.blob_size_limit = 0 =>
                /\ calc.total_space = vfs_total
                /\ calc.used_space = vfs_total - vfs_free
                /\ calc.free_space = vfs_free
           /\ calc.effective_free_space >= 0
           /\ calc.free_space >= reserved => calc.effective_free_space = calc.free_space - reserved
           /\ calc.free_space < reserved => calc.effective_free_space = 0

\* recalculate has just run on a backend whose base_size is above its
\* limited total space: there is no free space although the filesystem has
\* some.
C32_Witness ==
    /\ last.op = "Backend::recalculate"
    /\ backends[1].stat.blob_size_limit > 0
    /\ backends[1].stat.base_size > backends[1].calc.total_space
    /\ backends[1].calc.total_space > 0
    /\ backends[1].calc.vfs_free_space > 0
    /\ backends[1].calc.free_space = 0

\* C38: Backend::recalculate on a snapshot whose vfs_blocks * vfs_bsize is 0
\* divides by nothing that is zero and leaves total_space, effective_space
\* and effective_free_space all 0.
C38_NoDivisionByZero ==
    (/\ last.op = "Backend::recalculate"
     /\ backends[last.id].stat.vfs_blocks * backends[last.id].stat.vfs_bsize = 0)
    => /\ ~last.arg
       /\ backends[last.id].calc.total_space = 0
       /\ backends[last.id].calc.effective_space = 0
       /\ backends[last.id].calc.effective_free_space = 0

---------------------------------------------------------------------------
(* The top-level shapes of group metadata                                  *)

\* A blob that unpacks to a value that is neither a map nor an array.
C33_Scalar(blob) == blob.t \notin {"MAP", "ARRAY", "EMPTY", "INVALID"}

\* C33: Group::process_metadata() on a dirty group decodes a bare array of
\* ids as version 1, namespace "default" and couple = the array, and on a
\* blob whose top-level value is neither a map nor an array it leaves the
\* group BAD, bound as it was, and creates no couple.
C33_TopLevelShapes ==
    [][(/\ last'.op = "Group::process_metadata"
        /\ ~groups[last'.id].clean)
       => LET g == groups[last'.id]
              after == groups'[last'.id]
          IN /\ (g.metadata.t = "ARRAY" /\ ~C21_DecodeError(g.metadata) /\ g.couple = <<>>)
                    => /\ after.version = 1
                       /\ after.namespace = "default"
                       /\ after.couple = << [i \in DOMAIN g.metadata.a |-> g.metadata.a[i].n] >>
             /\ C33_Scalar(g.metadata)
                    => /\ after.status = "BAD"
                       /\ after.couple = g.couple
                       /\ couples' = couples]_vars

---------------------------------------------------------------------------
(* A stored blob and the fields parsed from it                             *)

\* The parsed fields and the status of g are what decoding its stored blob
\* gives: BAD for a blob that does not decode, the decoded version, frozen
\* flag, namespace and service otherwise.
C34_ProducedFromBlob(g) ==
    LET d == decode(g.metadata) IN
    IF ~unpack(g.metadata).ok \/ d.err # <<>>
    THEN g.status = "BAD"
    ELSE /\ g.version = d.version
         /\ g.frozen = d.frozen
         /\ g.namespace = d.ns
         /\ g.service = [migrating |-> d.service_migrating,
                         job_id |-> d.service_job_id]

\* C34: in every reachable state a clean group that stores a blob has the
\* parsed fields and the status that decoding this blob gives, however many
\* times save_metadata() was called with the same bytes.
C34_CleanMeansDecoded ==
    \A id \in DOMAIN groups :
        (groups[id].clean /\ groups[id].metadata # EmptyBlob)
            => C34_ProducedFromBlob(groups[id])

---------------------------------------------------------------------------
(* Ingest rounds: the statuses recomputed after a batch of snapshots       *)

\* The backends of group 1, and the statuses process_metadata reads through
\* its pointers to them.
RoundMembers == <<1>>

member_statuses(bs) == [i \in 1..Len(RoundMembers) |-> bs[RoundMembers[i]].calc.status]

\* The end of an ingest round: FS::update_status, Group::process_metadata
\* for group 1, Backend::update_status for every backend and
\* Couple::update_status for every couple, in this order.
ingest_round(bs, f, gs, cs, cfg) ==
    LET f1 == fs_update_status(f, bs)
        seen == [gs EXCEPT ![1].backends = member_statuses(bs)]
        r == process_metadata(seen, cs, cfg, 1)
        bs1 == [id \in DOMAIN bs |-> update_status(bs[id], f1.status)]
        gs1 == [r.groups EXCEPT ![1].backends = member_statuses(bs1)]
    IN [ backends |-> bs1, fs |-> f1, groups |-> gs1,
         couples |-> [k \in DOMAIN r.couples |->
                         couple_update_status(r.couples[k], gs1, cfg)] ]

IngestRound ==
    LET r == ingest_round(backends, fs, groups, couples, config) IN
    /\ backends' = r.backends
    /\ fs' = r.fs
    /\ groups' = r.groups
    /\ couples' = r.couples
    /\ last' = Did("Storage::ingest", 0)
    /\ UNCHANGED <<node, config, threads, locks, inventory, parser>>

\* Snapshots of one instant that differ in the backend's state and its
\* read-only flag.
RoundStats ==
    { [BackendStat EXCEPT !.state = st, !.read_only = ro] :
        st \in {0, DNET_BACKEND_ENABLED}, ro \in BOOLEAN }

\* The metadata written for group 1, with and without a migration.
RoundBlobs == {ServiceMetadata(migrating) : migrating \in BOOLEAN}

\* Two backends on one FS, created from a first snapshot and sized; group 1
\* holds backend 1 and has received no metadata yet.
InitRound ==
    /\ \E stats \in [BackendIds -> RoundStats] :
       \E space \in [BackendIds -> 1..MaxSpace] :
          backends = [id \in BackendIds |->
                        [init(stats[id]) EXCEPT !.calc.total_space = space[id]]]
    /\ fs \in {[NewFS EXCEPT !.total_space = t, !.backends = BackendIds] :
                  t \in 1..MaxSpace}
    /\ node = NoNode
    /\ config = NoConfig
    /\ couples = <<>>
    /\ groups = [id \in {1} |-> [Group(id) EXCEPT !.backends = <<"INIT">>]]
    /\ last = NoOp
    /\ NoConcurrency

NextRound ==
    \/ \E id \in BackendIds : \E stat \in RoundStats : BackendUpdate(id, stat)
    \/ \E blob \in RoundBlobs : GroupSaveMetadata(1, blob)
    \/ IngestRound

SpecRound == InitRound /\ [][NextRound]_vars

\* C35: after each ingest round a group whose stored metadata decoded and
\* names its couple has the status that the derivation gives for the
\* current statuses of its backends, whether or not its blob changed in the
\* round.
C35_GroupFollowsBackends ==
    last.op = "Storage::ingest" =>
        \A id \in DOMAIN groups :
            LET g == groups[id]
                d == decode(g.metadata)
            IN (/\ g.clean
                /\ unpack(g.metadata).ok
                /\ d.err = <<>>
                /\ g.couple # <<>>
                /\ couples[g.couple[1]].groups = d.couple)
               => g.status = group_status(member_statuses(backends),
                                          config.forbidden_dht_groups,
                                          g.service).status

---------------------------------------------------------------------------
(* The statuses of an FS and its backends as a function of the snapshots   *)

SettleRounds == 3

\* FS::update_status followed by Backend::update_status for every backend.
status_round(bs, f) ==
    LET f1 == fs_update_status(f, bs)
    IN [ backends |-> [id \in DOMAIN bs |-> update_status(bs[id], f1.status)],
         fs |-> f1 ]

\* n such rounds on unchanged input.
RECURSIVE repeat_rounds(_, _, _)
repeat_rounds(bs, f, n) ==
    IF n = 0 THEN [backends |-> bs, fs |-> f]
    ELSE LET r == status_round(bs, f) IN repeat_rounds(r.backends, r.fs, n - 1)

\* The statuses of the backends and of the FS in the record r.
C36_Statuses(r) ==
    <<r.fs.status, [id \in DOMAIN r.backends |-> r.backends[id].calc.status]>>

\* The run that went through no earlier snapshot: the backends and the FS
\* as constructed, given the stats, stalled flags, sizes and
\* FS.total_space of the current state.
C36_Fresh ==
    [ backends |-> [id \in DOMAIN backends |->
                      [backends[id] EXCEPT !.calc.status = "INIT",
                                           !.calc.status_detail = "Init"]],
      fs |-> [fs EXCEPT !.status = "OK"] ]

\* C36: from every reachable state, repeating the round of
\* FS::update_status and Backend::update_status on unchanged input ends in
\* the FS status and backend statuses that the same rounds reach from
\* freshly constructed objects with the same stats, stalled flags and
\* FS.total_space.
C36_StatusFromSnapshotsAlone ==
    C36_Statuses(repeat_rounds(backends, fs, SettleRounds))
        = C36_Statuses(repeat_rounds(C36_Fresh.backends, C36_Fresh.fs, SettleRounds))

---------------------------------------------------------------------------
(* The read-only-error drift across status updates                         *)

---------------------------------------------------------------------------
(* save_metadata and process_metadata from several threads                 *)

\* A clean group that stores a blob shows what decoding that blob gives: the
\* flag is not set for bytes that no process_metadata call has read.
C39_CleanWasRead ==
    \A id \in LockedGroups :
        (groups[id].clean /\ groups[id].metadata # EmptyBlob)
            => C34_ProducedFromBlob(groups[id])

\* A call that found the group dirty returns with the group clean.
C39_ReturnsClean ==
    \A t \in Threads :
        threads[t].pc = "return" => groups[threads[t].self].clean

\* A step of a process_metadata call past the metadata lock: the caller
\* that finds the flag set returns without changes, and the one that
\* decodes starts from a dirty group and leaves it clean, so that no second
\* decoding follows without a new save_metadata.
C39_DecodedOnce ==
    \A t \in Threads :
        LET id == threads[t].self IN
        (threads[t].pc \in {"decode", "created"} /\ threads'[t].pc = "return")
            => IF groups[id].clean
               THEN groups' = groups /\ couples' = couples
               ELSE groups'[id].clean

\* C39: under any interleaving of process_metadata calls and save_metadata
\* calls, a blob is decoded once by the caller that finds the group dirty
\* under the metadata lock while the other caller returns without changes,
\* and the clean flag is never true for a stored blob that no
\* process_metadata call has read.
C39_ConcurrentDecoding ==
    /\ [](C39_CleanWasRead /\ C39_ReturnsClean)
    /\ [][C39_DecodedOnce]_vars

---------------------------------------------------------------------------
(* Couple::update_status step by step, over groups that can repeat         *)

\* A thread in no call; key and i are the couple whose update_status it
\* runs and the index of the loop over m_groups.
IdleUpdater == [pc |-> "idle", self |-> 0, other |-> 0, g1 |-> 0, g2 |-> 0,
                ret |-> FALSE, key |-> <<>>, i |-> 0]

\* Couple::update_status past the loop that compares the metadata
\* (part_002 lines 119-170).
status_of_equal_groups(c, gs, cfg) ==
    LET n == Len(c.groups)
        statuses == [i \in 1..n |-> gs[c.groups[i]].status]
    IN
    IF \E i \in 1..n : gs[c.groups[i]].frozen
    THEN [c EXCEPT !.status = "FROZEN", !.status_text = "Some groups are frozen"]
    ELSE IF \A i \in 1..n : statuses[i] = "COUPLED"
    THEN coupled_status(c, gs, cfg)
    ELSE uncoupled_status(c, statuses)

\* Couple::update_status() is entered by thread t; a couple with no group is
\* BAD at once.
UpdateStatusCall(t, key) ==
    /\ threads[t].pc = "idle"
    /\ IF couples[key].groups = <<>>
       THEN /\ couples' = [couples EXCEPT ![key] =
                   [@ EXCEPT !.status = "BAD", !.status_text = "Couple has no groups"]]
            /\ UNCHANGED threads
       ELSE /\ threads' = [threads EXCEPT ![t] =
                   [IdleUpdater EXCEPT !.pc = "loop", !.key = key, !.i = 2]]
            /\ UNCHANGED couples
    /\ UNCHANGED <<backends, fs, node, groups, config, last, locks, inventory, parser>>

\* The head of the loop: past the last group the status is settled and the
\* call returns; otherwise metadata_equals is entered on the first group
\* and group i.
UpdateStatusLoop(t) ==
    /\ threads[t].pc = "loop"
    /\ LET c == couples[threads[t].key]
           i == threads[t].i
       IN IF i > Len(c.groups)
          THEN /\ couples' = [couples EXCEPT ![threads[t].key] =
                      status_of_equal_groups(c, groups, config)]
               /\ threads' = [threads EXCEPT ![t] = IdleUpdater]
          ELSE /\ LET order == lock_order(c.groups[1], c.groups[i], groups) IN
                  threads' = [threads EXCEPT
                      ![t].pc = "guard1",
                      ![t].self = c.groups[1], ![t].other = c.groups[i],
                      ![t].g1 = order[1], ![t].g2 = order[2]]
               /\ UNCHANGED couples
    /\ UNCHANGED <<backends, fs, node, groups, config, last, locks, inventory, parser>>

\* metadata_equals returns: its first guard is released, and the loop goes
\* on to the next group or ends with the couple BAD.
UpdateStatusCompared(t) ==
    /\ threads[t].pc = "release1"
    /\ locks' = [locks EXCEPT ![threads[t].g1] = 0]
    /\ IF threads[t].ret
       THEN /\ threads' = [threads EXCEPT ![t].pc = "loop", ![t].i = @ + 1]
            /\ UNCHANGED couples
       ELSE /\ couples' = [couples EXCEPT ![threads[t].key] =
                   [@ EXCEPT !.status = "BAD",
                             !.status_text = "Groups have different metadata"]]
            /\ threads' = [threads EXCEPT ![t] = IdleUpdater]
    /\ UNCHANGED <<backends, fs, node, groups, config, last, inventory, parser>>

\* process_metadata by a thread in no other call, as one critical section.
LockedProcessMetadata(id) ==
    /\ locks[id] = 0
    /\ LET r == process_metadata(groups, couples, config, id) IN
       /\ groups' = r.groups
       /\ couples' = r.couples
    /\ UNCHANGED <<backends, fs, node, config, last, threads, locks, inventory, parser>>

\* Metadata whose couple list names the group twice, or the two groups.
RepeatBlobs == {MetadataOf(<<1, 1>>), MetadataOf(<<1, 2>>)}

InitRepeat ==
    /\ backends = <<>>
    /\ fs = NewFS
    /\ node = NoNode
    /\ config = NoConfig
    /\ couples = <<>>
    /\ groups = [id \in LockedGroups |-> [Group(id) EXCEPT !.backends = <<"OK">>]]
    /\ last = NoOp
    /\ threads = [t \in Threads |-> IdleUpdater]
    /\ locks = [id \in LockedGroups |-> 0]
    /\ inventory = <<>>
    /\ parser = <<>>

UpdateStatusStep(t) ==
    \/ UpdateStatusLoop(t)
    \/ EqualsCompare(t)
    \/ EqualsRelease2(t)
    \/ UpdateStatusCompared(t)

NextRepeat ==
    \/ \E id \in LockedGroups : \E blob \in RepeatBlobs : LockedSaveMetadata(id, blob)
    \/ \E id \in LockedGroups : LockedProcessMetadata(id)
    \/ \E t \in Threads : \E key \in DOMAIN couples : UpdateStatusCall(t, key)
    \/ \E t \in Threads : EqualsGuard1(t)
    \/ \E t \in Threads : EqualsGuard2(t)
    \/ \E t \in Threads : UpdateStatusStep(t)

\* A thread spinning on a lock gets it if the lock is free again and again;
\* a thread that can go on without a lock does go on.
SpecRepeat ==
    /\ InitRepeat
    /\ [][NextRepeat]_vars
    /\ \A t \in Threads :
          /\ SF_vars(EqualsGuard1(t))
          /\ SF_vars(EqualsGuard2(t))
          /\ WF_vars(UpdateStatusStep(t))

\* Thread t waits for a metadata lock that it holds itself.
C40_SpinsOnOwnLock(t) ==
    /\ threads[t].pc = "guard2"
    /\ locks[threads[t].g2] = t

\* C40: g.metadata_equals(g) does not block on its own metadata lock and
\* answers true, so that Couple::update_status returns also for a couple
\* whose list of groups holds the same group twice.
C40_SelfEqualsTerminates ==
    /\ [](\A t \in Threads :
            /\ ~C40_SpinsOnOwnLock(t)
            /\ (threads[t].pc = "release2" /\ threads[t].self = threads[t].other)
                  => threads[t].ret)
    /\ \A t \in Threads : InCall(t) ~> ~InCall(t)

====
